---- MODULE Spec2Model ----
(***************************************************************************)
(* Relay server, nonce tracker, message frame and ratchet of the secure    *)
(* messenger, as state machines.  Time is the value Date.now() returns, in *)
(* milliseconds.  A WebSocket is OPEN, CLOSING (the relay called close())  *)
(* or absent; the transport delivers frames of OPEN sockets only.  The     *)
(* write-only statistics of a session (connectedAt, messageCount,          *)
(* handshakeCount, lastMessageTime, lastHandshakeTime) are left out.       *)
(***************************************************************************)
EXTENDS Integers, Sequences, FiniteSets, TLC

\* ------------------------------------------------------------------ bounds
MaxConn == 3
MaxTicks == 11
MaxSeq == 3
MaxPending == 2
MaxSessions == 2
MaxMsgs == 2
MaxIv == 1
MaxEph == 2
RateLimitMaxMessages == 2
HandshakeRateLimitPerMin == 2
NonceMaxSize == 1
MaxStoredMessages == 2
MaxStoredSeq == 1
MaxDelivered == 1
MaxDoublings == 0
MaxSessionTicks == 1
MaxSessionMsgs == 1
\* The retries after which a queued message is no longer sent: 10 in the source.
MAX_RETRIES == 2
MaxSteps == 4
MaxCalls == 3
\* CRYPTO_CONSTANTS.MAX_SKIPPED_MESSAGES, 1000 in the source: the model skips
\* three messages where the program skips a thousand.
MAX_SKIPPED_MESSAGES == 3
\* CRYPTO_CONSTANTS.MAX_CHAIN_LENGTH, 2^32 - 1 in the source: the model's
\* chains are exhausted by their third message.
MAX_CHAIN_LENGTH == 3

\* ------------------------------------------------------- program constants
MAX_MESSAGE_SIZE == 1048576
MAX_CLOCK_SKEW_MS == 300000
NONCE_TTL_MS == 300000
RateLimitWindowMs == 60000
HANDSHAKE_WINDOW_MS == 60000
CLEANUP_INTERVAL_MS == 60000
NONCE_CLEANUP_INTERVAL_MS == 60000
HANDSHAKE_INIT_SIZE == 152
MIN_FRAME_SIZE == 16
HEADER_OFFSET == 20
AES_TAG_SIZE == 16
HEADER_SIZE == 44
MAC_SIZE == 32
PROTOCOL_VERSION == 1
MAX_RETRY_DELAY_MS == 60000
MESSAGE_ID_SIZE == 16

\* The clock moves in steps of half a cleanup interval.
TickMs == CLEANUP_INTERVAL_MS \div 2

StartTime == 12 * TickMs
MaxNow == StartTime + MaxTicks * TickMs
Conns == 1..MaxConn
Addrs == {"a1"}
NoHeader == "none"

VARIABLES
    now,            \* Date.now()
    ws,             \* socket -> [state, code, reason]; absent: no such socket
    clientSessions, \* socket -> ClientSession
    rateLimiters,   \* clientId -> limiter record
    used,           \* NonceTracker.used, in insertion order: <<[key, ts], ...>>
    messageStore,   \* recipientId -> <<StoredMessage, ...>>
    pending,        \* socket -> handshakes awaiting processHandshakeInit's encrypt
    cleanupDue,     \* next firing time of the cleanup interval timer
    sweepDue,       \* next firing time of the nonce tracker's interval timer
    ev,             \* what the last step did
    arrived,        \* history: nonce -> when an InitiatorInit carrying it last arrived
    accepted,       \* history: the InitiatorInits that passed every responder check
    hsPasses,       \* history: times of the handshake rate check's passes, last 60 s
    ackTimes,       \* history: times of the acknowledgments sent, last 60 s
    connected,      \* client: this.connected
    handshakeState, \* client: this.handshakeState, <<>> while undefined
    ratchetStates,  \* client: recipient id -> RatchetState
    messageQueue,   \* client: this.messageQueue
    wire,           \* frames the client sent that the relay has not read yet
    inbox,          \* frames the relay sent that the client has not read yet
    got,            \* history: what the client knew of the frame the relay read last
    ratchetA,       \* the sender's RatchetState of a ratchet pair
    ratchetB,       \* the receiver's RatchetState of a ratchet pair
    channel,        \* EncryptedMessageData on its way from A to B
    result,         \* what the last decryptMessage on B returned or threw
    ratchet,        \* a RatchetState the ratchet steps are called on directly
    handed,         \* history: the ratchet steps on ratchet and what they returned
    calls,          \* encryptMessage calls on ratchetA suspended at their first await
    last,           \* what the last encryptMessage call to complete left behind
    maxStoredMessages, \* relay: config.maxStoredMessages
    socket,         \* client: this.ws and the connect() call that made it
    reconnectTimer, \* client: the timer of scheduleReconnect is pending
    retryBackoff,   \* client: this.retryBackoff
    fatal,          \* history: code of a fatal close since the application's last connect()
    finishing,      \* encryptMessage calls past the counter, at their later awaits
    written,        \* history: the sequences of the frames written, in order
    bundled,        \* client: the build is the bundled client
    disconnected,   \* history: disconnect() was called after the last connect()
    delivered,      \* history: what the message callback was called with
    heard           \* history: the frame the client's handleMessage was given last

vars == <<now, ws, clientSessions, rateLimiters, used, messageStore, pending,
          cleanupDue, sweepDue, ev, arrived, accepted, hsPasses, ackTimes,
          connected, handshakeState, ratchetStates, messageQueue, wire, inbox,
          got, ratchetA, ratchetB, channel, result, ratchet, handed, calls,
          last, maxStoredMessages,
          socket, reconnectTimer, retryBackoff, fatal, finishing, written,
          bundled, disconnected, delivered, heard>>

hist == <<arrived, accepted, hsPasses, ackTimes>>

clientVars == <<connected, handshakeState, ratchetStates, messageQueue, wire, inbox, got>>

restOfClient == <<handshakeState, ratchetStates, messageQueue, wire, inbox, got>>

pairVars == <<ratchetA, ratchetB, channel, result>>

chainVars == <<ratchet, handed, calls, last>>

storeVars == <<maxStoredMessages>>

reconnectVars == <<socket, reconnectTimer, retryBackoff, fatal>>

sendVars == <<finishing, written>>

sessionVars == <<bundled, disconnected, delivered, heard>>

laterVars == <<sendVars, sessionVars>>

extVars == <<chainVars, storeVars, reconnectVars, laterVars>>

\* ------------------------------------------------------------------ frames
\* A frame as the relay reads it: its byte length, the InitiatorInit fields
\* (bytes 64..152) and the outer message fields (message id, hdr_len and the
\* first four bytes of the header, big-endian).
NoFrame ==
    [len |-> 0, nonce |-> "n1", ts |-> 0, ident |-> "i1", sigOk |-> FALSE,
     msgId |-> 0, hdrLen |-> 0, seq |-> 0]

Frame(len, nonce, ts, ident, sigOk, msgId, hdrLen, seq) ==
    [len |-> len, nonce |-> nonce, ts |-> ts, ident |-> ident, sigOk |-> sigOk,
     msgId |-> msgId, hdrLen |-> hdrLen, seq |-> seq]

\* InitiatorInit frames: 152 bytes.  Read as an encrypted message, bytes
\* 16..20 (inside the sender's ephemeral key) are its hdr_len.
InitFrame(nonce, ts, ident, sigOk) ==
    Frame(HANDSHAKE_INIT_SIZE, nonce, ts, ident, sigOk, 0, 200, 0)

\* Encrypted-message frames of 100 bytes with a 60-byte header.
DataFrame(seq) == Frame(100, "n1", 0, "i1", FALSE, 1, 60, seq)

\* Frames that are too long, too short, too short to hold hdr_len, whose
\* header overruns the frame, and whose header is empty.
OddFrames ==
    {Frame(MAX_MESSAGE_SIZE + 1, "n1", 0, "i1", FALSE, 1, 60, 0),
     Frame(15, "n1", 0, "i1", FALSE, 1, 60, 0),
     Frame(18, "n1", 0, "i1", FALSE, 1, 60, 0),
     Frame(100, "n1", 0, "i1", FALSE, 1, 200, 0),
     Frame(100, "n1", 0, "i1", FALSE, 1, 0, 0)}

\* ------------------------------------------------------------ nonce tracker
UsedKeys(u) == {u[i].key : i \in 1..Len(u)}

UsedIndex(u, key) == CHOOSE i \in 1..Len(u) : u[i].key = key

RemoveAt(u, i) == SubSeq(u, 1, i - 1) \o SubSeq(u, i + 1, Len(u))

\* evictOldest: the first entry, in insertion order, with the smallest
\* timestamp among those older than now; nothing when there is none.
evictOldest(u, t) ==
    LET older == {i \in 1..Len(u) : u[i].ts < t}
    IN  IF older = {} THEN u
        ELSE LET oldest == CHOOSE i \in older :
                     \A j \in older : u[j].ts > u[i].ts \/ (u[j].ts = u[i].ts /\ j >= i)
             IN  RemoveAt(u, oldest)

\* Map.set: an existing key keeps its place and takes the new value.
MapSet(u, key, t) ==
    IF key \in UsedKeys(u)
    THEN [u EXCEPT ![UsedIndex(u, key)] = [key |-> key, ts |-> t]]
    ELSE Append(u, [key |-> key, ts |-> t])

NonceCheck_NoReplay(u, nonce, t) ==
    LET v == IF Len(u) >= NonceMaxSize THEN evictOldest(u, t) ELSE u
    IN  [ok |-> TRUE, used |-> MapSet(v, nonce, t)]

NonceCheck(u, nonce, t) ==
    IF nonce \in UsedKeys(u) /\ t - u[UsedIndex(u, nonce)].ts < NONCE_TTL_MS
    THEN [ok |-> FALSE, used |-> u]
    ELSE LET v == IF Len(u) >= NonceMaxSize THEN evictOldest(u, t) ELSE u
         IN  [ok |-> TRUE, used |-> MapSet(v, nonce, t)]

RECURSIVE Unexpired(_, _)
Unexpired(u, t) ==
    IF u = <<>> THEN <<>>
    ELSE IF t - Head(u).ts > NONCE_TTL_MS THEN Unexpired(Tail(u), t)
    ELSE <<Head(u)>> \o Unexpired(Tail(u), t)

\* ------------------------------------------------------------- rate limits
NewLimiter(t) ==
    [count |-> 0, windowStart |-> t, handshakeCount |-> 0, handshakeWindow |-> t]

SetLimiter(lims, id, lim) ==
    [k \in DOMAIN lims \cup {id} |-> IF k = id THEN lim ELSE lims[k]]

checkHandshakeRateLimit(lims, id, t) ==
    LET lim == IF id \in DOMAIN lims THEN lims[id] ELSE NewLimiter(t)
    IN  IF t - lim.handshakeWindow > HANDSHAKE_WINDOW_MS
        THEN [ok |-> TRUE,
              lims |-> SetLimiter(lims, id,
                         [lim EXCEPT !.handshakeCount = 1, !.handshakeWindow = t])]
        ELSE IF lim.handshakeCount >= HandshakeRateLimitPerMin
        THEN [ok |-> FALSE, lims |-> SetLimiter(lims, id, lim)]
        ELSE [ok |-> TRUE,
              lims |-> SetLimiter(lims, id,
                         [lim EXCEPT !.handshakeCount = lim.handshakeCount + 1])]

checkRateLimit(lims, id, t) ==
    IF id \notin DOMAIN lims
    THEN [ok |-> TRUE,
          lims |-> SetLimiter(lims, id, [NewLimiter(t) EXCEPT !.count = 1])]
    ELSE LET lim == lims[id]
         IN  IF t - lim.windowStart > RateLimitWindowMs
             THEN [ok |-> TRUE,
                   lims |-> SetLimiter(lims, id,
                              [lim EXCEPT !.count = 1, !.windowStart = t])]
             ELSE IF lim.count >= RateLimitMaxMessages
             THEN [ok |-> FALSE, lims |-> lims]
             ELSE [ok |-> TRUE,
                   lims |-> SetLimiter(lims, id,
                              [lim EXCEPT !.count = lim.count + 1])]

\* ---------------------------------------------------------------- sockets
Open(c) == c \in DOMAIN ws /\ ws[c].state = "OPEN"

SetWs(w, c, st, code, reason) ==
    [k \in DOMAIN w \cup {c} |->
        IF k = c THEN [state |-> st, code |-> code, reason |-> reason] ELSE w[k]]

\* ws.close(code, reason): starts the closing handshake of an open socket and
\* does nothing on one that is closing already.
WsClose(w, c, code, reason) ==
    IF code # 0 /\ c \in DOMAIN w /\ w[c].state = "OPEN"
    THEN SetWs(w, c, "CLOSING", code, reason)
    ELSE w

Drop(fn, c) == [k \in DOMAIN fn \ {c} |-> fn[k]]

Put(fn, c, v) == [k \in DOMAIN fn \cup {c} |-> IF k = c THEN v ELSE fn[k]]

Out(kind, id) == [kind |-> kind, id |-> id]

\* The record of a step: the socket, the frame, the session before the step,
\* what the step passed to ws.send and to ws.close, and the tracker's size
\* before the step.
Event(op, c, f, sent, accept, code, reason) ==
    [op |-> op, c |-> c, f |-> f,
     open |-> Open(c),
     hcPre |-> IF c \in DOMAIN clientSessions
               THEN clientSessions[c].handshakeComplete ELSE FALSE,
     expPre |-> IF c \in DOMAIN clientSessions
                THEN clientSessions[c].expectedSequence ELSE 0,
     idPre |-> IF c \in DOMAIN clientSessions
               THEN clientSessions[c].clientId ELSE NoHeader,
     sizePre |-> Len(used),
     trackedPre |-> IF f.nonce \in UsedKeys(used)
                    THEN used[UsedIndex(used, f.nonce)].ts ELSE -1,
     arrivedPre |-> IF f.nonce \in DOMAIN arrived THEN arrived[f.nonce] ELSE -1,
     acceptedPre |-> f \in accepted,
     nSessPre |-> Cardinality(DOMAIN clientSessions),
     sent |-> sent, accept |-> accept, close |-> code, reason |-> reason]

\* ------------------------------------------------------------ connections
getClientId(addr, forwarded) == IF forwarded # NoHeader THEN forwarded ELSE addr

RECURSIVE Deliverable(_, _)
Deliverable(msgs, t) ==
    IF msgs = <<>> THEN <<>>
    ELSE IF t < Head(msgs).expiresAt
    THEN <<Out("stored", Head(msgs).sequence)>> \o Deliverable(Tail(msgs), t)
    ELSE Deliverable(Tail(msgs), t)

deliverPendingMessages(store, id, t) ==
    IF id \notin DOMAIN store \/ store[id] = <<>>
    THEN [sent |-> <<>>, store |-> store]
    ELSE [sent |-> Deliverable(store[id], t), store |-> Drop(store, id)]

AtCapacity_Gt(n) == n > MaxSessions

AtCapacity(n) == n >= MaxSessions

\* A new connection is a new socket object: the free socket of least number.
handleConnection(c, addr, forwarded) ==
    /\ c \notin DOMAIN ws
    /\ \A k \in Conns \ DOMAIN ws : c <= k
    /\ IF AtCapacity(Cardinality(DOMAIN clientSessions))
       THEN /\ ws' = SetWs(ws, c, "CLOSING", 1008, "Server at capacity")
            /\ ev' = Event("connect", c, NoFrame, <<>>, FALSE, 1008, "Server at capacity")
            /\ UNCHANGED <<clientSessions, messageStore, pending>>
       ELSE LET id == getClientId(addr, forwarded)
                d == deliverPendingMessages(messageStore, id, now)
            IN  /\ ws' = SetWs(ws, c, "OPEN", 0, "")
                /\ clientSessions' = Put(clientSessions, c,
                       [clientId |-> id, handshakeComplete |-> FALSE,
                        expectedSequence |-> 0])
                /\ pending' = Put(pending, c, <<>>)
                /\ messageStore' = d.store
                /\ ev' = Event("connect", c, NoFrame, d.sent, FALSE, 0, "")
    /\ UNCHANGED <<now, rateLimiters, used, cleanupDue, sweepDue>>

\* The socket's 'close' event: the peer closed, or the closing handshake the
\* relay started has ended.  Handshakes of the socket still awaited only
\* touch the deleted session and the closed socket from here on.
wsOnClose(c) ==
    /\ c \in DOMAIN ws
    /\ ws' = Drop(ws, c)
    /\ clientSessions' = Drop(clientSessions, c)
    /\ pending' = Drop(pending, c)
    /\ ev' = Event("closed", c, NoFrame, <<>>, FALSE, 0, "")
    /\ UNCHANGED <<now, rateLimiters, used, messageStore, cleanupDue, sweepDue>>

\* --------------------------------------------------------------- handshake
\* processHandshakeInit up to its first await (the AES-GCM encryption of the
\* prekey): the signature and the timestamp are checked; "ok" leaves the
\* handshake awaiting the encryption.
processHandshakeInit(f, t) ==
    IF f.len < HANDSHAKE_INIT_SIZE THEN "Invalid handshake init message"
    ELSE IF ~f.sigOk THEN "Handshake signature verification failed"
    ELSE IF (IF t >= f.ts THEN t - f.ts ELSE f.ts - t) > MAX_CLOCK_SKEW_MS
    THEN "Handshake timestamp out of acceptable range"
    ELSE "ok"

\* The result of a handler's synchronous part.
Result(sess, lims, u, await, sent, code, reason) ==
    [sess |-> sess, lims |-> lims, used |-> u, await |-> await,
     sent |-> sent, close |-> code, reason |-> reason]

handleHandshake(s, f, lims, u, t) ==
    IF f.len # HANDSHAKE_INIT_SIZE
    THEN Result(s, lims, u, <<>>, <<>>, 1007, "Invalid handshake format")
    ELSE LET nc == NonceCheck(u, f.nonce, t)
         IN  IF ~nc.ok
             THEN Result(s, lims, nc.used, <<>>, <<>>, 1008, "Replay detected")
             ELSE IF processHandshakeInit(f, t) # "ok"
             THEN Result(s, lims, nc.used, <<>>, <<>>, 1008, "Handshake failed")
             ELSE Result(s, lims, nc.used, <<f.ident>>, <<>>, 0, "")

handleEncryptedMessage_AckMismatch(s, f, lims, u) ==
    IF f.len < HEADER_OFFSET
    THEN Result(s, lims, u, <<>>, <<>>, 1011, "Processing error")
    ELSE IF HEADER_OFFSET + f.hdrLen > f.len
    THEN Result(s, lims, u, <<>>, <<>>, 1007, "Invalid message format")
    ELSE Result(
             IF f.hdrLen >= 4
             THEN [s EXCEPT !.expectedSequence = s.expectedSequence + 1] ELSE s,
             lims, u, <<>>, <<Out("ack", f.msgId)>>, 0, "")

handleEncryptedMessage(s, f, lims, u) ==
    IF f.len < HEADER_OFFSET
    THEN Result(s, lims, u, <<>>, <<>>, 1011, "Processing error")
    ELSE IF HEADER_OFFSET + f.hdrLen > f.len
    THEN Result(s, lims, u, <<>>, <<>>, 1007, "Invalid message format")
    ELSE IF f.hdrLen >= 4 /\ f.seq # s.expectedSequence
    THEN Result(s, lims, u, <<>>, <<>>, 1007, "Sequence error")
    ELSE Result(
             IF f.hdrLen >= 4
             THEN [s EXCEPT !.expectedSequence = s.expectedSequence + 1] ELSE s,
             lims, u, <<>>, <<Out("ack", f.msgId)>>, 0, "")

handleMessageResult_NoGate(s, f, lims, u, t) ==
    IF f.len > MAX_MESSAGE_SIZE
    THEN Result(s, lims, u, <<>>, <<>>, 1009, "Message too large")
    ELSE IF f.len < MIN_FRAME_SIZE
    THEN Result(s, lims, u, <<>>, <<>>, 1007, "Invalid message format")
    ELSE IF ~s.handshakeComplete /\ f.len = HANDSHAKE_INIT_SIZE
    THEN LET hr == checkHandshakeRateLimit(lims, s.clientId, t)
         IN  IF ~hr.ok
             THEN Result(s, hr.lims, u, <<>>, <<>>, 1008,
                         "Handshake rate limit exceeded")
             ELSE handleHandshake(s, f, hr.lims, u, t)
    ELSE LET rr == checkRateLimit(lims, s.clientId, t)
         IN  IF ~rr.ok
             THEN Result(s, rr.lims, u, <<>>, <<>>, 1008, "Rate limit exceeded")
             ELSE handleEncryptedMessage(s, f, rr.lims, u)

handleMessageResult(s, f, lims, u, t) ==
    IF f.len > MAX_MESSAGE_SIZE
    THEN Result(s, lims, u, <<>>, <<>>, 1009, "Message too large")
    ELSE IF f.len < MIN_FRAME_SIZE
    THEN Result(s, lims, u, <<>>, <<>>, 1007, "Invalid message format")
    ELSE IF ~s.handshakeComplete
    THEN LET hr == checkHandshakeRateLimit(lims, s.clientId, t)
         IN  IF ~hr.ok
             THEN Result(s, hr.lims, u, <<>>, <<>>, 1008,
                         "Handshake rate limit exceeded")
             ELSE handleHandshake(s, f, hr.lims, u, t)
    ELSE LET rr == checkRateLimit(lims, s.clientId, t)
         IN  IF ~rr.ok
             THEN Result(s, rr.lims, u, <<>>, <<>>, 1008, "Rate limit exceeded")
             ELSE handleEncryptedMessage(s, f, rr.lims, u)

\* The socket's 'message' event, up to the handler's first real suspension.
handleMessage(c, f) ==
    /\ Open(c)
    /\ c \in DOMAIN clientSessions
    /\ clientSessions[c].expectedSequence <= MaxSeq
    /\ Len(pending[c]) < MaxPending
    /\ LET r == handleMessageResult(clientSessions[c], f, rateLimiters, used, now)
       IN  /\ clientSessions' = [clientSessions EXCEPT ![c] = r.sess]
           /\ rateLimiters' = r.lims
           /\ used' = r.used
           /\ pending' = [pending EXCEPT ![c] = pending[c] \o r.await]
           /\ ws' = WsClose(ws, c, r.close, r.reason)
           /\ ev' = Event("frame", c, f, r.sent, r.await # <<>>, r.close, r.reason)
    /\ UNCHANGED <<now, messageStore, cleanupDue, sweepDue>>

\* handleHandshake after the await: the reply is sent and the session becomes
\* authenticated.  On a socket that is closing, ws.send either drops the
\* reply silently or throws (then the catch block's close(1008) is a no-op),
\* depending on the WebSocket library.
handshakeDone(s, ident) ==
    [s EXCEPT !.handshakeComplete = TRUE, !.clientId = ident]

handleHandshakeResume(c, i, sendThrows) ==
    /\ c \in DOMAIN pending
    /\ i \in 1..Len(pending[c])
    /\ sendThrows => ~Open(c)
    /\ pending' = [pending EXCEPT ![c] = RemoveAt(pending[c], i)]
    /\ clientSessions' =
           IF sendThrows THEN clientSessions
           ELSE [clientSessions EXCEPT ![c] = handshakeDone(clientSessions[c], pending[c][i])]
    /\ ev' = Event("resume", c, [NoFrame EXCEPT !.ident = pending[c][i]],
                   IF Open(c) THEN <<Out("reply", 0)>> ELSE <<>>, FALSE,
                   IF sendThrows THEN 1008 ELSE 0,
                   IF sendThrows THEN "Handshake failed" ELSE "")
    /\ UNCHANGED <<now, ws, rateLimiters, used, messageStore, cleanupDue, sweepDue>>

\* ------------------------------------------------------------------ timers
Tick(d) ==
    /\ now + d <= MaxNow
    /\ now + d <= cleanupDue
    /\ now + d <= sweepDue
    /\ now' = now + d
    /\ ev' = Event("tick", 1, NoFrame, <<>>, FALSE, 0, "")
    /\ UNCHANGED <<ws, clientSessions, rateLimiters, used, messageStore, pending,
                   cleanupDue, sweepDue>>

RECURSIVE ValidMessages(_, _)
ValidMessages(msgs, t) ==
    IF msgs = <<>> THEN <<>>
    ELSE IF t < Head(msgs).expiresAt
    THEN <<Head(msgs)>> \o ValidMessages(Tail(msgs), t)
    ELSE ValidMessages(Tail(msgs), t)

PruneStore(store, t) ==
    LET keep == {id \in DOMAIN store : ValidMessages(store[id], t) # <<>>}
    IN  [id \in keep |-> ValidMessages(store[id], t)]

PruneLimiters(lims, t) ==
    LET keep == {id \in DOMAIN lims : ~(t - lims[id].windowStart > RateLimitWindowMs * 2)}
    IN  [id \in keep |-> lims[id]]

\* The cleanup interval's callback.  The store never holds more buckets than
\* there are client ids, far below ten times the per-recipient cap, so the
\* callback's last branch (dropping the oldest half of the buckets) is not
\* taken.
cleanupTask ==
    /\ now >= cleanupDue
    /\ messageStore' = PruneStore(messageStore, now)
    /\ rateLimiters' = PruneLimiters(rateLimiters, now)
    /\ cleanupDue' = cleanupDue + CLEANUP_INTERVAL_MS
    /\ ev' = Event("cleanup", 1, NoFrame, <<>>, FALSE, 0, "")
    /\ UNCHANGED <<now, ws, clientSessions, used, pending, sweepDue>>

nonceCleanup ==
    /\ now >= sweepDue
    /\ used' = Unexpired(used, now)
    /\ sweepDue' = sweepDue + NONCE_CLEANUP_INTERVAL_MS
    /\ ev' = Event("sweep", 1, NoFrame, <<>>, FALSE, 0, "")
    /\ UNCHANGED <<now, ws, clientSessions, rateLimiters, messageStore, pending,
                   cleanupDue>>

\* ------------------------------------------------------ JavaScript numbers
\* A number field that may be undefined or NaN.
Undefined == [t |-> "undefined", n |-> 0]

NaN == [t |-> "NaN", n |-> 0]

Num(n) == [t |-> "number", n |-> n]

ToNumber(v) == IF v.t = "undefined" THEN NaN ELSE v

\* v++: the value of the expression and the value stored back.
PostIncrement(v) ==
    [value |-> ToNumber(v),
     stored |-> IF v.t = "number" THEN Num(v.n + 1) ELSE NaN]

\* a !== b
StrictNotEqual(a, b) == a.t = "NaN" \/ b.t = "NaN" \/ a # b

\* DataView.setUint32 of a value: ToUint32, which takes NaN to 0 and leaves
\* the numbers below 2^32, all the numbers of the model, as they are.
ToUint32(v) == IF v.t = "number" THEN v.n ELSE 0

RECURSIVE Xor(_, _)
Xor(a, b) ==
    IF a = 0 THEN b
    ELSE IF b = 0 THEN a
    ELSE (((a % 2) + (b % 2)) % 2) + 2 * Xor(a \div 2, b \div 2)

Min(a, b) == IF a <= b THEN a ELSE b

Max(a, b) == IF a >= b THEN a ELSE b

\* ------------------------------------------------------------ cryptography
\* Byte strings are sequences of numbers.  A key is the path of its
\* derivation: HKDF of distinct inputs gives distinct keys.
hkdf(ikm, info) == ikm \o <<info>>

ROOT_KEY_INFO == 1
MESSAGE_KEY_PART == 2
NEXT_CHAIN_KEY_PART == 3
MAC_KEY_INFO == 4

\* `sending-${Date.now()}` and `receiving-${Date.now()}`
SendingInfo(t) == 1000000 + t

ReceivingInfo(t) == 2000000 + t

deriveRootKey(sharedSecret) == hkdf(sharedSecret, ROOT_KEY_INFO)

deriveChainKey(rootKey, info) == hkdf(rootKey, info)

deriveMessageKey(chainKey) ==
    [messageKey |-> hkdf(chainKey, MESSAGE_KEY_PART),
     nextChainKey |-> hkdf(chainKey, NEXT_CHAIN_KEY_PART)]

EphIds == 1..MaxEph

generateEphemeralKeyPair(e) == [privateKey |-> <<100 + e>>, publicKey |-> <<200 + e>>]

\* X25519: both sides of a key agreement compute the same secret.
computeSharedSecret(privateKey, publicKey) ==
    <<300, Min(privateKey[1] - 100, publicKey[1] - 200),
           Max(privateKey[1] - 100, publicKey[1] - 200)>>

IVs == 0..MaxIv

\* AES-256-GCM.  The ciphertext is the plaintext XOR the keystream of
\* (key, iv); the tag authenticates the ciphertext and the additional data
\* under (key, iv).  additionalData is <<>> when absent.
encrypt(plaintext, key, iv, additionalData) ==
    [ciphertext |-> [k |-> key, iv |-> iv, p |-> plaintext],
     tag |-> [kind |-> "tag", len |-> AES_TAG_SIZE, k |-> key, iv |-> iv,
              p |-> plaintext, aad |-> additionalData]]

decrypt(ciphertext, tag, key, iv, additionalData) ==
    IF tag.len # AES_TAG_SIZE
    THEN [ok |-> FALSE, p |-> <<>>, error |-> "Invalid tag size"]
    ELSE IF tag = encrypt(ciphertext.p, key, iv, additionalData).tag
            /\ ciphertext.k = key /\ ciphertext.iv = iv
    THEN [ok |-> TRUE, p |-> ciphertext.p, error |-> ""]
    ELSE [ok |-> FALSE, p |-> <<>>,
          error |-> "Decryption failed: authentication error"]

\* ciphertext.slice(-16): the last bytes of a ciphertext, which are not the
\* tag of its encryption.
Tail16(ciphertext) ==
    [kind |-> "tail", len |-> Min(AES_TAG_SIZE, Len(ciphertext.p)),
     k |-> ciphertext.k, iv |-> ciphertext.iv, p |-> ciphertext.p, aad |-> <<>>]

\* The first 32 bits of the keystream of (key, iv): a pseudo-random word.
\* The IVs of the model are numbered by the word they give.
KeystreamWord(key, iv) == iv

\* The first four bytes of a ciphertext, read as a big-endian number.
FirstWord(ciphertext) ==
    Xor(ciphertext.p[1], KeystreamWord(ciphertext.k, ciphertext.iv))

computeMAC(data, key) == [k |-> key, d |-> data]

verifyMAC(data, key, mac) == computeMAC(data, key) = mac

\* ------------------------------------------------------------------ ratchet
\* Optional fields are <<>> when undefined and <<value>> otherwise.
createRatchetState ==
    [rootKey |-> <<0>>, sendingChainKey |-> <<>>, receivingChainKey |-> <<>>,
     sendingEphemeralKey |-> <<>>, receivingEphemeralPublicKey |-> <<>>,
     sendCounter |-> Undefined, receiveCounter |-> Undefined,
     skippedMessageKeys |-> <<>>, previousChainLength |-> 0]

initializeRatchet(state, rootKey, sendingEphemeralKey, receivingEphemeralPublicKey) ==
    [state EXCEPT
        !.rootKey = rootKey,
        !.sendingEphemeralKey =
            IF sendingEphemeralKey # <<>> THEN sendingEphemeralKey ELSE @,
        !.receivingEphemeralPublicKey =
            IF receivingEphemeralPublicKey # <<>>
            THEN receivingEphemeralPublicKey ELSE @,
        !.previousChainLength = 0]

MessageKeyOf(messageKeyBytes, index) ==
    [encryptionKey |-> messageKeyBytes, macKey |-> hkdf(messageKeyBytes, MAC_KEY_INFO),
     iv |-> 0, index |-> index]

NoMessageKey == MessageKeyOf(<<>>, 0)

\* ratchetEncrypt were it to throw only at the limit itself.
ratchetEncrypt_ExactLimit(state, t, e) ==
    LET s1 == IF state.sendingChainKey # <<>> THEN state
              ELSE [state EXCEPT
                       !.sendingEphemeralKey =
                           IF @ = <<>> THEN <<generateEphemeralKeyPair(e)>> ELSE @,
                       !.sendingChainKey =
                           <<[key |-> deriveChainKey(state.rootKey, SendingInfo(t)),
                              index |-> 0]>>]
        ck == s1.sendingChainKey[1]
        d == deriveMessageKey(ck.key)
        s2 == [s1 EXCEPT !.sendingChainKey =
                             <<[key |-> d.nextChainKey, index |-> ck.index + 1]>>]
    IN  [state |-> s2,
         messageKey |-> MessageKeyOf(d.messageKey, ck.index),
         error |-> IF ck.index + 1 = MAX_CHAIN_LENGTH
                   THEN "Chain length exceeded, must perform new handshake"
                   ELSE ""]

\* ratchetEncrypt were it to rekey the root when it makes a sending chain.
ratchetEncrypt_Rekeys(state, t, e) ==
    LET s1 == IF state.sendingChainKey # <<>> THEN state
              ELSE [state EXCEPT
                       !.rootKey = deriveRootKey(state.rootKey),
                       !.sendingEphemeralKey =
                           IF @ = <<>> THEN <<generateEphemeralKeyPair(e)>> ELSE @,
                       !.sendingChainKey =
                           <<[key |-> deriveChainKey(state.rootKey, SendingInfo(t)),
                              index |-> 0]>>]
        ck == s1.sendingChainKey[1]
        d == deriveMessageKey(ck.key)
        s2 == [s1 EXCEPT !.sendingChainKey =
                             <<[key |-> d.nextChainKey, index |-> ck.index + 1]>>]
    IN  [state |-> s2,
         messageKey |-> MessageKeyOf(d.messageKey, ck.index),
         error |-> IF ck.index + 1 >= MAX_CHAIN_LENGTH
                   THEN "Chain length exceeded, must perform new handshake"
                   ELSE ""]

\* ratchetEncrypt at time t; e is the ephemeral key pair it generates when
\* the state has none.  The state keeps the advanced chain when it throws.
ratchetEncrypt(state, t, e) ==
    LET s1 == IF state.sendingChainKey # <<>> THEN state
              ELSE [state EXCEPT
                       !.sendingEphemeralKey =
                           IF @ = <<>> THEN <<generateEphemeralKeyPair(e)>> ELSE @,
                       !.sendingChainKey =
                           <<[key |-> deriveChainKey(state.rootKey, SendingInfo(t)),
                              index |-> 0]>>]
        ck == s1.sendingChainKey[1]
        d == deriveMessageKey(ck.key)
        s2 == [s1 EXCEPT !.sendingChainKey =
                             <<[key |-> d.nextChainKey, index |-> ck.index + 1]>>]
    IN  [state |-> s2,
         messageKey |-> MessageKeyOf(d.messageKey, ck.index),
         error |-> IF ck.index + 1 >= MAX_CHAIN_LENGTH
                   THEN "Chain length exceeded, must perform new handshake"
                   ELSE ""]

\* The loop of ratchetDecrypt that skips forward to messageNumber: the keys of
\* the messages skipped, all but the last, go to skippedMessageKeys.
RECURSIVE SkipForward(_, _, _, _)
SkipForward(currentKey, currentIndex, messageNumber, skipped) ==
    IF currentIndex >= messageNumber
    THEN [key |-> currentKey, index |-> currentIndex, skipped |-> skipped]
    ELSE LET d == deriveMessageKey(currentKey)
         IN  SkipForward(d.nextChainKey, currentIndex + 1, messageNumber,
                 IF currentIndex < messageNumber - 1
                 THEN [k \in DOMAIN skipped \cup {currentIndex} |->
                          IF k = currentIndex
                          THEN MessageKeyOf(d.messageKey, currentIndex)
                          ELSE skipped[k]]
                 ELSE skipped)

TooManySkipped_OneMore(skipCount) == skipCount > MAX_SKIPPED_MESSAGES + 1

\* skipCount > CRYPTO_CONSTANTS.MAX_SKIPPED_MESSAGES
TooManySkipped(skipCount) == skipCount > MAX_SKIPPED_MESSAGES

ratchetDecrypt(state, dhPublicKey, messageNumber, t) ==
    LET isNewChain == \/ state.receivingEphemeralPublicKey = <<>>
                      \/ state.receivingEphemeralPublicKey[1] # dhPublicKey
        s0 == IF isNewChain
              THEN [state EXCEPT !.previousChainLength =
                        IF state.receivingChainKey = <<>> THEN 0
                        ELSE state.receivingChainKey[1].index]
              ELSE state
    IN  IF isNewChain /\ state.sendingEphemeralKey = <<>>
        THEN [state |-> s0, messageKey |-> NoMessageKey,
              error |-> "Cannot ratchet: no sending ephemeral key"]
        ELSE
        LET newRoot == deriveRootKey(state.rootKey \o
                           computeSharedSecret(state.sendingEphemeralKey[1].privateKey,
                                               dhPublicKey))
            s1 == IF isNewChain
                  THEN [s0 EXCEPT
                           !.rootKey = newRoot,
                           !.receivingChainKey =
                               <<[key |-> deriveChainKey(newRoot, ReceivingInfo(t)),
                                  index |-> 0]>>,
                           !.receivingEphemeralPublicKey = <<dhPublicKey>>]
                  ELSE s0
        IN  IF messageNumber < s1.previousChainLength
            THEN IF messageNumber \in DOMAIN s1.skippedMessageKeys
                 THEN [state |-> [s1 EXCEPT !.skippedMessageKeys =
                                     [k \in DOMAIN @ \ {messageNumber} |-> @[k]]],
                       messageKey |-> s1.skippedMessageKeys[messageNumber],
                       error |-> ""]
                 ELSE [state |-> s1, messageKey |-> NoMessageKey,
                       error |-> "Message from old chain, key not available"]
            ELSE IF s1.receivingChainKey = <<>>
            THEN [state |-> s1, messageKey |-> NoMessageKey,
                  error |-> "No receiving chain key available"]
            ELSE IF TooManySkipped(messageNumber - s1.receivingChainKey[1].index)
            THEN [state |-> s1, messageKey |-> NoMessageKey,
                  error |-> "Too many skipped messages"]
            ELSE
            LET rc == s1.receivingChainKey[1]
                sk == SkipForward(rc.key, rc.index, messageNumber,
                                  s1.skippedMessageKeys)
                d == deriveMessageKey(sk.key)
            IN  [state |-> [s1 EXCEPT
                               !.skippedMessageKeys = sk.skipped,
                               !.receivingChainKey =
                                   <<[key |-> d.nextChainKey, index |-> sk.index + 1]>>],
                 messageKey |-> MessageKeyOf(d.messageKey, sk.index),
                 error |-> ""]

\* ----------------------------------------------------------------- messages
\* serializeHeader: sequence, dhPublicKey, messageNumber, previousChainLength.
serializeHeader(header) ==
    <<ToUint32(header.sequence), header.dhPublicKey[1],
      header.messageNumber, header.previousChainLength>>

deserializeHeader(data) ==
    [sequence |-> Num(data[1]), dhPublicKey |-> <<data[2]>>,
     messageNumber |-> data[3], previousChainLength |-> data[4]]

MacData(sequence, header, ciphertext, tag) ==
    [sequence |-> ToUint32(sequence), header |-> header,
     ciphertext |-> ciphertext, tag |-> tag]

NoData ==
    [messageId |-> 0, sequence |-> Undefined, header |-> <<>>, ciphertext |-> <<>>,
     mac |-> <<>>, timestamp |-> 0, version |-> 0]

\* encryptMessage at time t: e is the ephemeral key pair ratchetEncrypt may
\* generate, iv the random IV of the body, hiv the one `encrypt` draws for
\* the header, id the random message id.  The body's tag goes into the MAC
\* and is not part of the result.
encryptMessage(plaintext, ratchetState, t, e, iv, hiv, id) ==
    IF Len(plaintext) > MAX_MESSAGE_SIZE
    THEN [state |-> ratchetState, data |-> NoData, error |-> "Message too large"]
    ELSE
    LET r == ratchetEncrypt(ratchetState, t, e)
        messageKey == r.messageKey
        body == encrypt(plaintext, messageKey.encryptionKey, iv, <<>>)
        inc == PostIncrement(r.state.sendCounter)
        sequence == inc.value
        s3 == [r.state EXCEPT !.sendCounter = inc.stored]
        header == [sequence |-> sequence,
                   dhPublicKey |-> s3.sendingEphemeralKey[1].publicKey,
                   messageNumber |-> messageKey.index,
                   previousChainLength |-> s3.previousChainLength]
        hdr == encrypt(serializeHeader(header), messageKey.encryptionKey, hiv,
                       <<body.ciphertext>>)
        fullHeader == [ciphertext |-> hdr.ciphertext, tag |-> hdr.tag]
    IN  IF r.error # ""
        THEN [state |-> r.state, data |-> NoData, error |-> r.error]
        ELSE IF s3.sendingEphemeralKey = <<>>
        THEN [state |-> s3, data |-> NoData, error |-> "TypeError"]
        ELSE [state |-> s3,
              data |-> [messageId |-> id, sequence |-> sequence,
                        header |-> fullHeader, ciphertext |-> body.ciphertext,
                        mac |-> computeMAC(MacData(sequence, fullHeader,
                                             body.ciphertext, body.tag),
                                           messageKey.macKey),
                        timestamp |-> t, version |-> PROTOCOL_VERSION],
              error |-> ""]

\* No encryptMessage call has completed yet.
NoSend == [op |-> "none", sequence |-> Undefined, index |-> 0]

NoHeard == [kind |-> "none", id |-> 0, success |-> FALSE, awaited |-> FALSE]

Thrown(state, error) == [state |-> state, ok |-> FALSE, p |-> <<>>, error |-> error]

\* decryptMessage at time t; tempIv is the random IV it draws.
decryptMessage(encryptedData, ratchetState, t, tempIv) ==
    IF StrictNotEqual(encryptedData.sequence, ratchetState.receiveCounter)
    THEN Thrown(ratchetState, "Sequence mismatch")
    ELSE IF ratchetState.receivingChainKey = <<>>
    THEN Thrown(ratchetState, "TypeError")
    ELSE
    LET hd == decrypt(encryptedData.header.ciphertext, encryptedData.header.tag,
                      ratchetState.receivingChainKey[1].key, tempIv,
                      <<encryptedData.ciphertext>>)
    IN  IF ~hd.ok THEN Thrown(ratchetState, hd.error)
        ELSE
        LET header == deserializeHeader(hd.p)
        IN  IF StrictNotEqual(header.sequence, encryptedData.sequence)
            THEN Thrown(ratchetState, "Header sequence mismatch")
            ELSE
            LET rd == ratchetDecrypt(ratchetState, header.dhPublicKey,
                                     header.messageNumber, t)
                tag == Tail16(encryptedData.ciphertext)
            IN  IF rd.error # "" THEN Thrown(rd.state, rd.error)
                ELSE IF ~verifyMAC(MacData(encryptedData.sequence,
                                           encryptedData.header,
                                           encryptedData.ciphertext, tag),
                                   rd.messageKey.macKey, encryptedData.mac)
                THEN Thrown(rd.state, "MAC verification failed")
                ELSE
                LET s2 == [rd.state EXCEPT !.receiveCounter =
                               PostIncrement(rd.state.receiveCounter).stored]
                    pt == decrypt(encryptedData.ciphertext, tag,
                                  rd.messageKey.encryptionKey, tempIv, <<>>)
                IN  [state |-> s2, ok |-> pt.ok, p |-> pt.p, error |-> pt.error]

\* ------------------------------------------------------------------- client
relayVars == <<now, ws, clientSessions, rateLimiters, used, messageStore, pending,
               cleanupDue, sweepDue>>

Plaintexts == {<<1>>, <<2, 3>>}

\* The root key processHandshakeResponse derives.
HandshakeRootKey == <<9>>

\* this.ws before the first connect().
NoSocket == [phase |-> "none", origin |-> "app", settled |-> TRUE]

\* ws.readyState === 1: the socket has opened and has not closed.
IsOpen(s) == s.phase \in {"handshake", "failed", "open"}

\* The socket disconnect() closed, until its 'close' event.
Closing(s) == s.phase \in {"closing", "closingHandshake"}

\* this.ws.readyState === OPEN, for the client whose socket the relay holds
\* the other end of and for the client on its own.
ClientOpen == Open(1) \/ IsOpen(socket)

\* The ratchet of the bundled client: createRatchetState sets both counters
\* to 0, and initializeRatchet gives the sending and the receiving chain one
\* chain key, derived from the root key with the info 'initial-chain'.
INITIAL_CHAIN_INFO == 5

createRatchetStateBundle ==
    [createRatchetState EXCEPT !.sendCounter = Num(0), !.receiveCounter = Num(0)]

initializeRatchetBundle(state, rootKey, sendingEphemeralKey, receivingEphemeralPublicKey) ==
    LET chainKeyBytes == deriveChainKey(rootKey, INITIAL_CHAIN_INFO)
    IN  [state EXCEPT
            !.rootKey = rootKey,
            !.sendCounter = Num(0),
            !.receiveCounter = Num(0),
            !.sendingEphemeralKey =
                IF sendingEphemeralKey # <<>> THEN sendingEphemeralKey ELSE @,
            !.receivingEphemeralPublicKey =
                IF receivingEphemeralPublicKey # <<>>
                THEN receivingEphemeralPublicKey ELSE @,
            !.sendingChainKey = <<[key |-> chainKeyBytes, index |-> 0]>>,
            !.receivingChainKey = <<[key |-> chainKeyBytes, index |-> 0]>>,
            !.previousChainLength = 0]

\* createRatchetState of the client's build.
NewRatchetState == IF bundled THEN createRatchetStateBundle ELSE createRatchetState

\* serializeMessage, as the relay reads its result: the length, the message
\* id, hdr_len and the first four bytes of the header.
serializeMessage(encryptedData) ==
    Frame(MESSAGE_ID_SIZE + 4 + (HEADER_SIZE + AES_TAG_SIZE) + 4
              + Len(encryptedData.ciphertext.p) + 4 + MAC_SIZE + 8 + 4,
          "n1", 0, "i1", FALSE, encryptedData.messageId,
          HEADER_SIZE + AES_TAG_SIZE, FirstWord(encryptedData.header.ciphertext))

\* What goes on the wire for entry i of the queue, with what the client knows
\* of it: its place among the messages of the channel and its sequence.
OnWire(queue, i) ==
    [frame |-> serializeMessage(queue[i].encryptedData),
     index |-> i - 1, sequence |-> queue[i].encryptedData.sequence]

\* The HandshakeState createHandshakeInit returns, less the identity key.
createHandshakeInit(ephemeralKey) ==
    [ephemeralKey |-> ephemeralKey, rootKey |-> <<>>, handshakeComplete |-> FALSE]

ClientStep == ev' = Event("client", 1, NoFrame, <<>>, FALSE, 0, "")

\* The socket's 'open' event up to performHandshake's ws.send: n is the
\* random nonce, e the ephemeral key pair.
performHandshake(n, e) ==
    /\ Open(1)
    /\ handshakeState = <<>>
    /\ handshakeState' = <<createHandshakeInit(generateEphemeralKeyPair(e))>>
    /\ wire' = Append(wire, [frame |-> InitFrame(n, now, "i1", TRUE),
                             index |-> -1, sequence |-> Undefined])
    /\ ClientStep
    /\ UNCHANGED <<relayVars, hist, pairVars, extVars, connected, ratchetStates,
                   messageQueue, inbox, got>>

\* sendQueuedMessage up to its wait for the acknowledgment.
Ready(queue, t) ==
    {i \in 1..Len(queue) : queue[i].nextRetry <= t /\ queue[i].retryCount < MAX_RETRIES}

RECURSIVE SendAll(_, _, _)
SendAll(queue, i, ready) ==
    IF i > Len(queue) THEN <<>>
    ELSE (IF i \in ready THEN <<OnWire(queue, i)>> ELSE <<>>)
             \o SendAll(queue, i + 1, ready)

\* The client's 'message' event.  Before the handshake is done the frame is
\* taken for the ResponderReply: the ratchet state of the relay is set up,
\* the client is connected and processMessageQueue sends what is queued.
\* Afterwards handleMessage ignores the frame, acknowledgments included.
clientOnMessage ==
    /\ inbox # <<>>
    /\ inbox' = Tail(inbox)
    /\ IF ~connected /\ handshakeState # <<>> /\ Head(inbox).kind = "reply"
       THEN LET ready == Ready(messageQueue, now)
            IN  /\ ratchetStates' = Put(ratchetStates, "server",
                       initializeRatchet(createRatchetState, HandshakeRootKey,
                                         <<handshakeState[1].ephemeralKey>>, <<>>))
                /\ connected' = TRUE
                /\ wire' = IF Open(1) THEN wire \o SendAll(messageQueue, 1, ready)
                           ELSE wire
                /\ messageQueue' =
                       [i \in 1..Len(messageQueue) |->
                           IF i \in ready /\ Open(1)
                           THEN [messageQueue[i] EXCEPT !.waiting = TRUE]
                           ELSE messageQueue[i]]
       ELSE UNCHANGED <<ratchetStates, connected, wire, messageQueue>>
    /\ ClientStep
    /\ UNCHANGED <<relayVars, hist, pairVars, extVars, handshakeState, got>>

\* sendMessage up to sendQueuedMessage's wait for the acknowledgment; the
\* k-th message gets the message id k.
sendMessage(recipientId, plaintext, e, iv, hiv) ==
    /\ Len(messageQueue) < MaxMsgs
    /\ LET state == IF recipientId \in DOMAIN ratchetStates
                    THEN ratchetStates[recipientId] ELSE NewRatchetState
           r == encryptMessage(plaintext, state, now, e, iv, hiv,
                               Len(messageQueue) + 1)
           queue == Append(messageQueue,
                        [messageId |-> r.data.messageId, recipientId |-> recipientId,
                         encryptedData |-> r.data, timestamp |-> now,
                         retryCount |-> 0, nextRetry |-> now,
                         waiting |-> connected /\ ClientOpen])
       IN  /\ ratchetStates' = Put(ratchetStates, recipientId, r.state)
           /\ IF r.error # ""
              THEN UNCHANGED <<messageQueue, wire>>
              ELSE /\ messageQueue' = queue
                   /\ wire' = IF connected /\ ClientOpen
                              THEN Append(wire, OnWire(queue, Len(queue)))
                              ELSE wire
    /\ ClientStep
    /\ UNCHANGED <<relayVars, hist, pairVars, extVars, connected, handshakeState, inbox, got>>

\* sendQueuedMessage after its five seconds without the waiter being called.
ackTimeout(i) ==
    /\ i \in 1..Len(messageQueue)
    /\ messageQueue[i].waiting
    /\ messageQueue' =
           [messageQueue EXCEPT
               ![i].waiting = FALSE,
               ![i].retryCount = @ + 1,
               ![i].nextRetry =
                   now + Min(retryBackoff * 2 ^ (messageQueue[i].retryCount + 1),
                             MAX_RETRY_DELAY_MS)]
    /\ ClientStep
    /\ UNCHANGED <<relayVars, hist, pairVars, extVars, connected, handshakeState,
                   ratchetStates, wire, inbox, got>>

\* The relay reads the next frame of the wire; what it sends goes to the
\* client's inbox.
relayReceive ==
    /\ wire # <<>>
    /\ handleMessage(1, Head(wire).frame)
    /\ wire' = Tail(wire)
    /\ got' = [index |-> Head(wire).index, sequence |-> Head(wire).sequence]
    /\ inbox' = inbox \o ev'.sent
    /\ UNCHANGED <<hist, pairVars, extVars, connected, handshakeState, ratchetStates,
                   messageQueue>>

relayResume ==
    /\ handleHandshakeResume(1, 1, FALSE)
    /\ inbox' = inbox \o ev'.sent
    /\ UNCHANGED <<hist, pairVars, extVars, connected, handshakeState, ratchetStates,
                   messageQueue, wire, got>>

\* The close the relay started ends: both 'close' events.  The codes the
\* relay closes with are the ones the client does not reconnect after.
clientOnClose ==
    /\ 1 \in DOMAIN ws /\ ws[1].state = "CLOSING"
    /\ wsOnClose(1)
    /\ connected' = FALSE
    /\ wire' = <<>>
    /\ inbox' = <<>>
    /\ UNCHANGED <<hist, pairVars, extVars, handshakeState, ratchetStates, messageQueue, got>>

\* ------------------------------------------------------------- ratchet pair
PairRootKey == <<8>>

\* Two ratchet states set up from one root key, as the two ends of a
\* handshake do: each with its own ephemeral key pair, the receiver with or
\* without the sender's public key.
InitializePair(ea, eb, known) ==
    /\ result.op = "none"
    /\ ratchetA' = initializeRatchet(createRatchetState, PairRootKey,
                                     <<generateEphemeralKeyPair(ea)>>, <<>>)
    /\ ratchetB' = initializeRatchet(createRatchetState, PairRootKey,
                       <<generateEphemeralKeyPair(eb)>>,
                       IF known THEN <<generateEphemeralKeyPair(ea).publicKey>>
                       ELSE <<>>)
    /\ result' = [result EXCEPT !.op = "initialized"]
    /\ UNCHANGED <<relayVars, ev, hist, clientVars, extVars, channel>>

Encrypted(state) ==
    IF state.sendingChainKey = <<>> THEN 0 ELSE state.sendingChainKey[1].index

EncryptA(plaintext, iv, hiv) ==
    /\ result.op # "none"
    /\ Encrypted(ratchetA) < MaxMsgs
    /\ LET r == encryptMessage(plaintext, ratchetA, now, 1, iv, hiv,
                               Encrypted(ratchetA) + 1)
       IN  /\ ratchetA' = r.state
           /\ channel' = IF r.error = ""
                         THEN Append(channel, [data |-> r.data, p |-> plaintext])
                         ELSE channel
    /\ UNCHANGED <<relayVars, ev, hist, clientVars, extVars, ratchetB, result>>

DecryptB(tempIv) ==
    /\ channel # <<>>
    /\ LET r == decryptMessage(Head(channel).data, ratchetB, now, tempIv)
       IN  /\ ratchetB' = r.state
           /\ result' = [op |-> "decrypt", ok |-> r.ok, p |-> r.p,
                         sent |-> Head(channel).p, error |-> r.error]
    /\ channel' = Tail(channel)
    /\ UNCHANGED <<relayVars, ev, hist, clientVars, extVars, ratchetA>>

\* ------------------------------------------------------------ ratchet steps
ChainRootKey == <<7>>

\* The message numbers a receive step is given: the first few and one far
\* ahead, two full skips away.
MaxNumber == MAX_SKIPPED_MESSAGES + 1

FarNumber == 2 * MAX_SKIPPED_MESSAGES + 1

Numbers == 0..MaxNumber \cup {FarNumber}

\* The state after the handshake, as either build of the ratchet sets it up:
\* with the own ephemeral key pair e, with or without the peer's public key.
SetUp(bundle, e, peer) ==
    /\ handed = <<>>
    /\ ratchet = createRatchetState
    /\ ratchet' =
           IF bundle
           THEN initializeRatchetBundle(createRatchetStateBundle, ChainRootKey,
                                        <<generateEphemeralKeyPair(e)>>, peer)
           ELSE initializeRatchet(createRatchetState, ChainRootKey,
                                  <<generateEphemeralKeyPair(e)>>, peer)
    /\ UNCHANGED <<relayVars, ev, hist, clientVars, pairVars, storeVars, reconnectVars, laterVars,
                   handed, calls, last>>

\* A step of the ratchet as the history keeps it: the state before it, the
\* key it returned or the error it threw, and the cache it left.
Step(op, dhPublicKey, messageNumber, r) ==
    [op |-> op, dh |-> dhPublicKey, m |-> messageNumber, pre |-> ratchet,
     key |-> r.messageKey, error |-> r.error,
     cache |-> r.state.skippedMessageKeys]

\* ratchetDecrypt called with the fields of a header.
ReceiveStep(dhPublicKey, messageNumber) ==
    /\ Len(handed) < MaxSteps
    /\ LET r == ratchetDecrypt(ratchet, dhPublicKey, messageNumber, now)
       IN  /\ ratchet' = r.state
           /\ handed' = Append(handed, Step("receive", dhPublicKey, messageNumber, r))
    /\ UNCHANGED <<relayVars, ev, hist, clientVars, pairVars, storeVars, reconnectVars, laterVars, calls, last>>

\* ratchetEncrypt; e is the ephemeral key pair it generates when the state
\* has none.
SendStep(e) ==
    /\ Len(handed) < MaxSteps
    /\ LET r == ratchetEncrypt(ratchet, now, e)
       IN  /\ ratchet' = r.state
           /\ handed' = Append(handed, Step("send", <<>>, r.messageKey.index, r))
    /\ UNCHANGED <<relayVars, ev, hist, clientVars, pairVars, storeVars, reconnectVars, laterVars, calls, last>>

\* ------------------------------------------------------- concurrent sends
\* encryptMessage up to its first await, the AES-GCM encryption of the body:
\* the ratchet has stepped, the counter has not.
encryptMessageBegin(plaintext, ratchetState, t, e, iv) ==
    IF Len(plaintext) > MAX_MESSAGE_SIZE
    THEN [state |-> ratchetState, call |-> <<>>, error |-> "Message too large"]
    ELSE LET r == ratchetEncrypt(ratchetState, t, e)
         IN  [state |-> r.state,
              call |-> IF r.error # "" THEN <<>>
                       ELSE <<[plaintext |-> plaintext, messageKey |-> r.messageKey,
                               iv |-> iv]>>,
              error |-> r.error]

\* encryptMessage from that await on, at time t: the counter gives the
\* sequence, the header and the MAC are made; hiv is the header's IV and id
\* the message id.
encryptMessageResume(call, ratchetState, t, hiv, id) ==
    LET messageKey == call.messageKey
        body == encrypt(call.plaintext, messageKey.encryptionKey, call.iv, <<>>)
        inc == PostIncrement(ratchetState.sendCounter)
        sequence == inc.value
        s3 == [ratchetState EXCEPT !.sendCounter = inc.stored]
        header == [sequence |-> sequence,
                   dhPublicKey |-> s3.sendingEphemeralKey[1].publicKey,
                   messageNumber |-> messageKey.index,
                   previousChainLength |-> s3.previousChainLength]
        hdr == encrypt(serializeHeader(header), messageKey.encryptionKey, hiv,
                       <<body.ciphertext>>)
        fullHeader == [ciphertext |-> hdr.ciphertext, tag |-> hdr.tag]
    IN  [state |-> s3,
         data |-> [messageId |-> id, sequence |-> sequence,
                   header |-> fullHeader, ciphertext |-> body.ciphertext,
                   mac |-> computeMAC(MacData(sequence, fullHeader,
                                        body.ciphertext, body.tag),
                                      messageKey.macKey),
                   timestamp |-> t, version |-> PROTOCOL_VERSION],
         error |-> ""]

\* The ratchet state sendMessage makes for a new recipient, in either build.
NewRecipient(bundle) ==
    /\ ratchetA = createRatchetState
    /\ calls = <<>>
    /\ last = NoSend
    /\ ratchetA' = IF bundle THEN createRatchetStateBundle ELSE createRatchetState
    /\ last' = [NoSend EXCEPT !.op = "created"]
    /\ UNCHANGED <<relayVars, ev, hist, clientVars, storeVars, reconnectVars, laterVars, ratchetB, channel,
                   result, ratchet, handed, calls>>

\* A call of encryptMessage on ratchetA runs up to its first await.
SendBegin(plaintext, iv) ==
    /\ last # NoSend
    /\ Encrypted(ratchetA) < MaxCalls
    /\ LET r == encryptMessageBegin(plaintext, ratchetA, now, 1, iv)
       IN  /\ ratchetA' = r.state
           /\ calls' = calls \o r.call
    /\ UNCHANGED <<relayVars, ev, hist, clientVars, storeVars, reconnectVars, laterVars, ratchetB, channel,
                   result, ratchet, handed, last>>

\* The awaited encryption of call i settles and the call runs on: it takes
\* its sequence from the counter and makes its header and MAC, whose
\* encryptions it awaits in turn.  The encryptions settle in any order.
SendResume(i, hiv) ==
    /\ i \in 1..Len(calls)
    /\ LET r == encryptMessageResume(calls[i], ratchetA, now, hiv, 1)
       IN  /\ ratchetA' = r.state
           /\ last' = [op |-> "sent", sequence |-> r.data.sequence,
                       index |-> calls[i].messageKey.index]
           /\ finishing' = Append(finishing, r.data)
    /\ calls' = RemoveAt(calls, i)
    /\ UNCHANGED <<relayVars, ev, hist, clientVars, storeVars, reconnectVars, sessionVars,
                   ratchetB, channel, result, ratchet, handed, written>>

\* The later awaits of a call settle, encryptMessage returns and sendMessage
\* writes the frame to the channel.
SendWrite(i) ==
    /\ i \in 1..Len(finishing)
    /\ written' = Append(written, finishing[i].sequence)
    /\ finishing' = RemoveAt(finishing, i)
    /\ UNCHANGED <<relayVars, ev, hist, clientVars, pairVars, chainVars, storeVars,
                   reconnectVars, sessionVars>>

\* ------------------------------------------------------------ stored messages
MESSAGE_EXPIRY_MS == 604800000

\* Array.prototype.slice(start): a negative start counts from the end, and
\* -0 is 0.
Slice(messages, start) ==
    LET from == IF start < 0 THEN Max(Len(messages) + start, 0)
                ELSE Min(start, Len(messages))
    IN  SubSeq(messages, from + 1, Len(messages))

\* storeMessage at time t; the message data is known by its sequence.
storeMessageResult(store, cap, recipientId, sequence, t) ==
    LET messages == IF recipientId \in DOMAIN store THEN store[recipientId] ELSE <<>>
        kept == IF Len(messages) >= cap THEN Slice(messages, -cap + 1) ELSE messages
        stored == [recipientId |-> recipientId, sequence |-> sequence,
                   storedAt |-> t, expiresAt |-> t + MESSAGE_EXPIRY_MS]
    IN  Put(store, recipientId, Append(kept, stored))

Recipients == {"a1", "i1"}

storeMessage(recipientId, sequence) ==
    /\ \A id \in DOMAIN messageStore : Len(messageStore[id]) <= MaxStoredMessages
    /\ messageStore' = storeMessageResult(messageStore, maxStoredMessages,
                                          recipientId, sequence, now)
    /\ ev' = Event("store", 1, [NoFrame EXCEPT !.ident = recipientId, !.seq = sequence],
                   <<>>, FALSE, 0, "")
    /\ UNCHANGED <<now, ws, clientSessions, rateLimiters, used, pending, cleanupDue,
                   sweepDue>>

\* ------------------------------------------------------------- reconnecting
INITIAL_BACKOFF_MS == 1000

MAX_BACKOFF_MS == 60000

FatalCodes == {1000, 1002, 1003, 1007, 1008, 1009, 1011}

\* Close codes a channel can end with: the fatal ones, going away, abnormal.
CloseCodes == FatalCodes \cup {1001, 1006}

\* The rejection were the doubled backoff not capped.
Rejected_NoCap(s, backoff, timer) ==
    IF ~s.settled /\ s.origin = "timer"
    THEN [backoff |-> backoff * 2, timer |-> TRUE]
    ELSE [backoff |-> backoff, timer |-> timer]

\* The promise connect() returned is rejected.  A second settlement is
\* ignored; the application's caller handles its own rejection, and the
\* catch of scheduleReconnect's timer doubles the backoff and schedules again.
Rejected(s, backoff, timer) ==
    IF ~s.settled /\ s.origin = "timer"
    THEN [backoff |-> Min(backoff * 2, MAX_BACKOFF_MS), timer |-> TRUE]
    ELSE [backoff |-> backoff, timer |-> timer]

\* connect(): returns at once on an open socket, else makes a new socket.
\* The model follows one socket: no call is made while one is connecting.
connect(origin) ==
    /\ socket.phase \notin {"connecting", "aborting"} /\ ~Closing(socket)
    /\ socket' = IF IsOpen(socket) THEN socket
                 ELSE [phase |-> "connecting", origin |-> origin, settled |-> FALSE]

\* The application calls connect().
AppConnect ==
    /\ connect("app")
    /\ fatal' = 0
    /\ UNCHANGED <<reconnectTimer, retryBackoff, connected>>

\* The timer of scheduleReconnect fires.
TimerFires ==
    /\ reconnectTimer
    /\ reconnectTimer' = FALSE
    /\ connect("timer")
    /\ UNCHANGED <<retryBackoff, fatal, connected>>

\* 'open': performHandshake sends the InitiatorInit and waits.
clientOnOpen ==
    /\ socket.phase = "connecting"
    /\ socket' = [socket EXCEPT !.phase = "handshake"]
    /\ UNCHANGED <<reconnectTimer, retryBackoff, fatal, connected>>

\* performHandshake resolves: the rest of the 'open' handler.
HandshakeResolves ==
    /\ socket.phase = "handshake"
    /\ socket' = [socket EXCEPT !.phase = "open", !.settled = TRUE]
    /\ connected' = TRUE
    /\ retryBackoff' = INITIAL_BACKOFF_MS
    /\ UNCHANGED <<reconnectTimer, fatal>>

\* performHandshake rejects on its timeout or on a bad response; the socket
\* stays open.
HandshakeRejects ==
    /\ socket.phase = "handshake"
    /\ socket' = [socket EXCEPT !.phase = "failed", !.settled = TRUE]
    /\ retryBackoff' = Rejected(socket, retryBackoff, reconnectTimer).backoff
    /\ reconnectTimer' = Rejected(socket, retryBackoff, reconnectTimer).timer
    /\ UNCHANGED <<fatal, connected>>

\* 'error' before the socket opened; its 'close' follows.
clientOnError ==
    /\ socket.phase \in {"connecting", "aborting"}
    /\ socket' = [socket EXCEPT !.phase = "errored", !.settled = TRUE]
    /\ retryBackoff' = Rejected(socket, retryBackoff, reconnectTimer).backoff
    /\ reconnectTimer' = Rejected(socket, retryBackoff, reconnectTimer).timer
    /\ UNCHANGED <<fatal, connected>>

\* scheduleReconnect unless the code is fatal.
closeSchedules(code) == code \notin FatalCodes

\* 'close': the handler of connect(), then, during the handshake, the
\* closeHandler of performHandshake, whose rejection rejects connect().
clientSocketClose(code) ==
    /\ \/ IsOpen(socket)
       \/ Closing(socket)
       \/ socket.phase = "errored" /\ code = 1006
    /\ LET timer == closeSchedules(code) \/ reconnectTimer
           r == IF socket.phase \in {"handshake", "closingHandshake"}
                THEN Rejected(socket, retryBackoff, timer)
                ELSE [backoff |-> retryBackoff, timer |-> timer]
       IN  /\ retryBackoff' = r.backoff
           /\ reconnectTimer' = r.timer
    /\ connected' = FALSE
    /\ socket' = [socket EXCEPT !.phase = "closed", !.settled = TRUE]
    /\ fatal' = IF code \in FatalCodes THEN code ELSE fatal

\* ----------------------------------------------------------- client session
\* What a session step leaves alone besides the client's own state.
Quiet == UNCHANGED <<relayVars, hist, pairVars, chainVars, storeVars, sendVars, bundled>>

\* A step that is given no frame.
NoneHeard == heard' = NoHeard

\* The application calls connect().
SessionConnect ==
    /\ AppConnect
    /\ disconnected' = FALSE
    /\ ClientStep /\ Quiet /\ NoneHeard
    /\ UNCHANGED <<restOfClient, delivered>>

\* The reconnect timer fires; the model follows MaxDoublings doublings of the
\* backoff.
SessionTimer ==
    /\ retryBackoff <= INITIAL_BACKOFF_MS * 2 ^ MaxDoublings
    /\ TimerFires
    /\ ClientStep /\ Quiet /\ NoneHeard
    /\ UNCHANGED <<restOfClient, disconnected, delivered>>

\* 'open': performHandshake makes the ephemeral key pair e and the handshake
\* state and sends the InitiatorInit.
SessionOpen(n, e) ==
    /\ clientOnOpen
    /\ handshakeState' = <<createHandshakeInit(generateEphemeralKeyPair(e))>>
    /\ wire' = Append(wire, [frame |-> InitFrame(n, now, "i1", TRUE),
                             index |-> -1, sequence |-> Undefined])
    /\ ClientStep /\ Quiet /\ NoneHeard
    /\ UNCHANGED <<ratchetStates, messageQueue, inbox, got, disconnected, delivered>>

\* The ratchet state performHandshake sets up for the relay, in the client's
\* build.
ServerRatchet(ephemeralKey) ==
    IF bundled
    THEN initializeRatchetBundle(createRatchetStateBundle, HandshakeRootKey,
                                 <<ephemeralKey>>, <<>>)
    ELSE initializeRatchet(createRatchetState, HandshakeRootKey, <<ephemeralKey>>, <<>>)

\* The ResponderReply arrives and is good: processHandshakeResponse completes
\* the handshake state, the ratchet state of the relay is set up, and the
\* 'open' handler goes on to processMessageQueue.
SessionResolves ==
    /\ HandshakeResolves
    /\ handshakeState # <<>>
    /\ handshakeState' = <<[handshakeState[1] EXCEPT
                               !.rootKey = <<HandshakeRootKey>>,
                               !.handshakeComplete = TRUE]>>
    /\ ratchetStates' = Put(ratchetStates, "server",
                            ServerRatchet(handshakeState[1].ephemeralKey))
    /\ LET ready == Ready(messageQueue, now)
       IN  /\ wire' = wire \o SendAll(messageQueue, 1, ready)
           /\ messageQueue' =
                  [i \in 1..Len(messageQueue) |->
                      IF i \in ready THEN [messageQueue[i] EXCEPT !.waiting = TRUE]
                      ELSE messageQueue[i]]
    /\ ClientStep /\ Quiet /\ NoneHeard
    /\ UNCHANGED <<inbox, got, disconnected, delivered>>

SessionRejects ==
    /\ HandshakeRejects
    /\ ClientStep /\ Quiet /\ NoneHeard
    /\ UNCHANGED <<restOfClient, disconnected, delivered>>

SessionError ==
    /\ clientOnError
    /\ ClientStep /\ Quiet /\ NoneHeard
    /\ UNCHANGED <<restOfClient, disconnected, delivered>>

\* 'close': what was on the way to the relay is lost with the channel.
SessionClose(code) ==
    /\ clientSocketClose(code)
    /\ wire' = <<>>
    /\ ClientStep /\ Quiet /\ NoneHeard
    /\ UNCHANGED <<handshakeState, ratchetStates, messageQueue, inbox, got,
                   disconnected, delivered>>

\* secureZeroMemory leaves zero bytes.
ZeroKey == <<0>>

\* The handshake state after cleanupRatchet has run on every ratchet state:
\* its ephemeral key pair and its root key are overwritten when they are the
\* arrays the relay's ratchet state holds, which performHandshake gave it.
AfterCleanup(hs, states) ==
    IF /\ "server" \in DOMAIN states
       /\ states["server"].sendingEphemeralKey = <<hs.ephemeralKey>>
    THEN [hs EXCEPT !.ephemeralKey.privateKey = ZeroKey,
                    !.rootKey = IF @ = <<>> THEN <<>> ELSE <<ZeroKey>>]
    ELSE hs

\* disconnect(): the reconnect timer is cleared, the socket is closed and
\* forgotten, every ratchet state is cleaned up and the map cleared.  The
\* 'close' event of the socket follows; a socket still connecting fails
\* with 'error' first.
disconnect ==
    /\ reconnectTimer' = FALSE
    /\ socket' = IF socket.phase = "handshake"
                 THEN [socket EXCEPT !.phase = "closingHandshake"]
                 ELSE IF IsOpen(socket) THEN [socket EXCEPT !.phase = "closing"]
                 ELSE IF socket.phase = "connecting"
                 THEN [socket EXCEPT !.phase = "aborting"]
                 ELSE socket
    /\ ratchetStates' = <<>>
    /\ handshakeState' = IF handshakeState = <<>> THEN <<>>
                         ELSE <<AfterCleanup(handshakeState[1], ratchetStates)>>
    /\ connected' = FALSE
    /\ disconnected' = TRUE
    /\ ev' = Event("disconnect", 1, NoFrame, <<>>, FALSE, 0, "")
    /\ Quiet /\ NoneHeard
    /\ UNCHANGED <<retryBackoff, fatal, messageQueue, wire, inbox, got, delivered>>

\* Time passes, MaxSessionTicks times.
SessionTick ==
    /\ now < StartTime + MaxSessionTicks * TickMs
    /\ Tick(TickMs)
    /\ UNCHANGED <<hist, clientVars, pairVars, extVars>>

\* The application calls sendMessage; the message id is a fresh one.
SessionSend(recipientId, plaintext) ==
    /\ recipientId \in DOMAIN ratchetStates
           => LET c == ratchetStates[recipientId].sendCounter
              IN  c.t = "number" => c.n < MaxMsgs
    /\ \A i \in 1..Len(messageQueue) : messageQueue[i].messageId # Len(messageQueue) + 1
    /\ sendMessage(recipientId, plaintext, 1, 0, 0)

\* The frames the client is given after the handshake: acknowledgments of
\* 25 bytes and longer frames, which are or are not messages encrypted and
\* authenticated for the client.
ACK_SIZE == 25

MIN_MESSAGE_SIZE == 20

DataLen == 100

AckFrame(id, success) ==
    [len |-> ACK_SIZE, id |-> id, success |-> success, authentic |-> FALSE]

MessageFrame(authentic) ==
    [len |-> DataLen, id |-> 0, success |-> FALSE, authentic |-> authentic]

SessionFrames ==
    {AckFrame(id, b) : id \in 1..MaxMsgs, b \in BOOLEAN}
        \cup {MessageFrame(b) : b \in BOOLEAN}

Awaited(queue, id) == {i \in 1..Len(queue) : queue[i].messageId = id /\ queue[i].waiting}

\* sendQueuedMessage after its waiter was called with success: the message
\* leaves the queue, or is to be retried.
Acknowledged(queue, id, success, backoff, t) ==
    IF success
    THEN SelectSeq(queue, LAMBDA q : ~(q.messageId = id /\ q.waiting))
    ELSE [i \in 1..Len(queue) |->
             IF i \in Awaited(queue, id)
             THEN [queue[i] EXCEPT
                      !.waiting = FALSE,
                      !.retryCount = @ + 1,
                      !.nextRetry = t + Min(backoff * 2 ^ (queue[i].retryCount + 1),
                                            MAX_RETRY_DELAY_MS)]
             ELSE queue[i]]

\* handleMessage of the client.  The bundled client takes a frame of 25
\* bytes for an acknowledgment and calls the waiter of its message id, and
\* hands any other frame of more than 20 bytes to the message callback as it
\* is.  The client of the source tree does nothing with a frame.
clientHandleMessage(f) ==
    /\ socket.phase = "open"
    /\ Len(delivered) < MaxDelivered
    /\ heard' = [kind |-> IF f.len = ACK_SIZE THEN "ack" ELSE "message",
                 id |-> f.id, success |-> f.success,
                 awaited |-> f.len = ACK_SIZE /\ Awaited(messageQueue, f.id) # {}]
    /\ IF ~bundled THEN UNCHANGED <<messageQueue, delivered>>
       ELSE IF f.len = ACK_SIZE
       THEN /\ messageQueue' = Acknowledged(messageQueue, f.id, f.success,
                                            retryBackoff, now)
            /\ UNCHANGED delivered
       ELSE IF f.len > MIN_MESSAGE_SIZE
       THEN /\ delivered' = Append(delivered, [authentic |-> f.authentic,
                                               decrypted |-> FALSE])
            /\ UNCHANGED messageQueue
       ELSE UNCHANGED <<messageQueue, delivered>>
    /\ ev' = Event("heard", 1, NoFrame, <<>>, FALSE, 0, "")
    /\ Quiet
    /\ UNCHANGED <<reconnectVars, connected, handshakeState, ratchetStates, wire,
                   inbox, got, disconnected>>

\* ------------------------------------------------------------- histories
\* The history variables observe the steps; a specification records the ones
\* its claims speak of and leaves the others alone.
\* The times of a history that lie in the 60 s ending at t (t - 60 s excluded).
RECURSIVE Recent(_, _)
Recent(times, t) ==
    IF times = <<>> THEN <<>>
    ELSE IF Head(times) <= t - HANDSHAKE_WINDOW_MS THEN Recent(Tail(times), t)
    ELSE times

\* The frame was given to checkHandshakeRateLimit and passed it.
PassedHandshakeRate(s, f, r) ==
    /\ ~s.handshakeComplete
    /\ f.len <= MAX_MESSAGE_SIZE
    /\ f.len >= MIN_FRAME_SIZE
    /\ r.reason # "Handshake rate limit exceeded"

\* The arrivals of a history that are less than the tracker's TTL old at t.
Fresh(arr, t) ==
    [n \in {k \in DOMAIN arr : t - arr[k] < NONCE_TTL_MS} |-> arr[n]]

RecordReplay(c, f) ==
    LET r == handleMessageResult(clientSessions[c], f, rateLimiters, used, now)
    IN  /\ arrived' = IF f.len = HANDSHAKE_INIT_SIZE
                      THEN Put(arrived, f.nonce, now) ELSE arrived
        /\ accepted' = IF r.await # <<>> THEN accepted \cup {f} ELSE accepted

RecordRate(c, f) ==
    LET r == handleMessageResult(clientSessions[c], f, rateLimiters, used, now)
    IN  /\ hsPasses' = IF PassedHandshakeRate(clientSessions[c], f, r)
                       THEN Append(Recent(hsPasses, now), now) ELSE hsPasses
        /\ ackTimes' = IF r.sent # <<>>
                       THEN Append(Recent(ackTimes, now), now) ELSE ackTimes

\* ----------------------------------------------------------- specification
InitBase ==
    /\ now = StartTime
    /\ ws = <<>>
    /\ clientSessions = <<>>
    /\ rateLimiters = <<>>
    /\ used = <<>>
    /\ messageStore = <<>>
    /\ pending = <<>>
    /\ cleanupDue = StartTime + CLEANUP_INTERVAL_MS
    /\ sweepDue = StartTime + NONCE_CLEANUP_INTERVAL_MS
    /\ ev = [op |-> "init", c |-> 1, f |-> NoFrame, open |-> FALSE, hcPre |-> FALSE,
             expPre |-> 0, idPre |-> NoHeader, sizePre |-> 0, trackedPre |-> -1,
             arrivedPre |-> -1, acceptedPre |-> FALSE, nSessPre |-> 0,
             sent |-> <<>>, accept |-> FALSE, close |-> 0, reason |-> ""]
    /\ arrived = <<>>
    /\ accepted = {}
    /\ hsPasses = <<>>
    /\ ackTimes = <<>>
    /\ connected = FALSE
    /\ handshakeState = <<>>
    /\ ratchetStates = <<>>
    /\ messageQueue = <<>>
    /\ wire = <<>>
    /\ inbox = <<>>
    /\ got = [index |-> -1, sequence |-> Undefined]
    /\ ratchetA = createRatchetState
    /\ ratchetB = createRatchetState
    /\ channel = <<>>
    /\ result = [op |-> "none", ok |-> FALSE, p |-> <<>>, sent |-> <<>>, error |-> ""]
    /\ ratchet = createRatchetState
    /\ handed = <<>>
    /\ calls = <<>>
    /\ last = NoSend
    /\ socket = NoSocket
    /\ reconnectTimer = FALSE
    /\ retryBackoff = INITIAL_BACKOFF_MS
    /\ fatal = 0
    /\ finishing = <<>>
    /\ written = <<>>
    /\ disconnected = FALSE
    /\ delivered = <<>>
    /\ heard = NoHeard

\* The relay is constructed with the per-recipient cap of the model.
Init == InitBase /\ maxStoredMessages = MaxStoredMessages /\ bundled = FALSE

\* Frames of the relay specification: InitiatorInits with a fresh or a stale
\* timestamp and a good or a bad signature, encrypted messages, odd frames.
TsStale == StartTime - MAX_CLOCK_SKEW_MS - 2 * TickMs

RelayFrames ==
    {InitFrame(n, ts, "i1", ok) : n \in {"n1", "n2"}, ts \in {StartTime, TsStale},
                                  ok \in BOOLEAN}
        \cup {DataFrame(q) : q \in 0..(MaxSeq + 1)} \cup OddFrames

Next ==
    \/ \E c \in Conns, a \in Addrs :
           handleConnection(c, a, NoHeader) /\ UNCHANGED <<hist, clientVars, pairVars, extVars>>
    \/ \E c \in Conns : wsOnClose(c) /\ UNCHANGED <<hist, clientVars, pairVars, extVars>>
    \/ \E c \in Conns, f \in RelayFrames : handleMessage(c, f) /\ UNCHANGED <<hist, clientVars, pairVars, extVars>>
    \/ \E c \in Conns, i \in 1..MaxPending, b \in BOOLEAN :
           handleHandshakeResume(c, i, b) /\ UNCHANGED <<hist, clientVars, pairVars, extVars>>

Spec == Init /\ [][Next]_vars

\* The nonce tracker over time: a socket at a time, well-signed
\* InitiatorInits stamped with the start time or five minutes ahead of it,
\* no traffic after the handshake, the clock in steps of a minute and both
\* interval timers.
TsAhead == StartTime + MAX_CLOCK_SKEW_MS

ReplayFrames ==
    {InitFrame("n1", StartTime, "i1", TRUE), InitFrame("n2", TsAhead, "i1", TRUE)}

NextReplay ==
    \/ \E a \in Addrs : handleConnection(1, a, NoHeader) /\ UNCHANGED <<hist, clientVars, pairVars, extVars>>
    \/ wsOnClose(1) /\ UNCHANGED <<hist, clientVars, pairVars, extVars>>
    \/ \E f \in ReplayFrames :
           /\ handleMessage(1, f)
           /\ RecordReplay(1, f)
           /\ UNCHANGED <<hsPasses, ackTimes, clientVars, pairVars, extVars>>
    \/ handleHandshakeResume(1, 1, FALSE) /\ UNCHANGED <<hist, clientVars, pairVars, extVars>>
    \/ /\ Tick(2 * TickMs)
       /\ arrived' = Fresh(arrived, now')
       /\ UNCHANGED <<accepted, hsPasses, ackTimes, clientVars, pairVars, extVars>>
    \/ cleanupTask /\ UNCHANGED <<hist, clientVars, pairVars, extVars>>
    \/ nonceCleanup /\ UNCHANGED <<hist, clientVars, pairVars, extVars>>

SpecReplay == Init /\ [][NextReplay]_vars

\* The rate limiters over time: a socket at a time, one InitiatorInit,
\* encrypted messages, the clock in steps of half a minute and both interval
\* timers.
RateFrames == {InitFrame("n1", StartTime, "i1", TRUE)} \cup {DataFrame(q) : q \in 0..MaxSeq}

NextRate ==
    \/ \E a \in Addrs : handleConnection(1, a, NoHeader) /\ UNCHANGED <<hist, clientVars, pairVars, extVars>>
    \/ wsOnClose(1) /\ UNCHANGED <<hist, clientVars, pairVars, extVars>>
    \/ \E f \in RateFrames :
           /\ handleMessage(1, f)
           /\ RecordRate(1, f)
           /\ UNCHANGED <<arrived, accepted, clientVars, pairVars, extVars>>
    \/ handleHandshakeResume(1, 1, FALSE) /\ UNCHANGED <<hist, clientVars, pairVars, extVars>>
    \/ /\ now < StartTime + 6 * TickMs
       /\ Tick(TickMs)
       /\ hsPasses' = Recent(hsPasses, now')
       /\ ackTimes' = Recent(ackTimes, now')
       /\ UNCHANGED <<arrived, accepted, clientVars, pairVars, extVars>>
    \/ cleanupTask /\ UNCHANGED <<hist, clientVars, pairVars, extVars>>
    \/ nonceCleanup /\ UNCHANGED <<hist, clientVars, pairVars, extVars>>

SpecRate == Init /\ [][NextRate]_vars

\* A client and the relay: one connection, its handshake and the messages
\* the client sends to one recipient.
NextClient ==
    \/ \E a \in Addrs :
           /\ handshakeState = <<>>
           /\ handleConnection(1, a, NoHeader)
           /\ UNCHANGED <<hist, clientVars, pairVars, extVars>>
    \/ \E n \in {"n1"}, e \in EphIds : performHandshake(n, e)
    \/ relayReceive
    \/ relayResume
    \/ clientOnMessage
    \/ \E p \in Plaintexts, e \in EphIds, iv \in IVs, hiv \in IVs :
           sendMessage("bob", p, e, iv, hiv)
    \/ \E i \in 1..MaxMsgs : ackTimeout(i)
    \/ clientOnClose

SpecClient == Init /\ [][NextClient]_vars

\* A ratchet pair: A encrypts, B decrypts in order, the clock advances.
NextRatchet ==
    \/ \E ea \in EphIds, eb \in EphIds, known \in BOOLEAN : InitializePair(ea, eb, known)
    \/ \E p \in Plaintexts, iv \in IVs, hiv \in IVs : EncryptA(p, iv, hiv)
    \/ \E iv \in IVs : DecryptB(iv)
    \/ Tick(TickMs) /\ UNCHANGED <<hist, clientVars, pairVars, extVars>>

SpecRatchet == Init /\ [][NextRatchet]_vars

\* The ratchet steps on one state: the set-up of either build, receive steps
\* with the message numbers and the public keys of the model in any order,
\* and send steps.
NextSteps ==
    \/ \E bundle \in BOOLEAN, e \in EphIds, peer \in {<<>>, <<generateEphemeralKeyPair(1).publicKey>>} :
           SetUp(bundle, e, peer)
    \/ \E e \in EphIds, m \in Numbers : ReceiveStep(generateEphemeralKeyPair(e).publicKey, m)
    \/ SendStep(1)

SpecSteps == Init /\ [][NextSteps]_vars

\* Concurrent sends on one ratchet state: calls of encryptMessage begin and
\* resume in any interleaving while the clock advances.
NextSend ==
    \/ \E bundle \in BOOLEAN : NewRecipient(bundle)
    \/ \E p \in Plaintexts, iv \in IVs : SendBegin(p, iv)
    \/ \E i \in 1..MaxCalls, hiv \in IVs : SendResume(i, hiv)
    \/ \E i \in 1..MaxCalls : SendWrite(i)
    \/ Tick(TickMs) /\ UNCHANGED <<hist, clientVars, pairVars, extVars>>

SpecSend == Init /\ [][NextSend]_vars

\* The message store: the relay constructed with a cap from 1 to the
\* model's, storeMessage called for the address and for the identity of a
\* client, connections with and without an x-forwarded-for header naming the
\* identity, and handshakes.
InitStore == InitBase /\ maxStoredMessages \in 1..MaxStoredMessages /\ bundled = FALSE

StoreFrames == {InitFrame("n1", StartTime, "i1", TRUE)}

StoreSockets == {1}

NextStore ==
    \/ \E c \in StoreSockets, a \in Addrs, h \in {NoHeader, "i1"} :
           handleConnection(c, a, h) /\ UNCHANGED <<hist, clientVars, pairVars, extVars>>
    \/ \E c \in StoreSockets : wsOnClose(c) /\ UNCHANGED <<hist, clientVars, pairVars, extVars>>
    \/ \E c \in StoreSockets, f \in StoreFrames :
           handleMessage(c, f) /\ UNCHANGED <<hist, clientVars, pairVars, extVars>>
    \/ \E c \in StoreSockets :
           handleHandshakeResume(c, 1, FALSE) /\ UNCHANGED <<hist, clientVars, pairVars, extVars>>
    \/ \E id \in Recipients, q \in 0..MaxStoredSeq :
           storeMessage(id, q) /\ UNCHANGED <<hist, clientVars, pairVars, extVars>>

SpecStore == InitStore /\ [][NextStore]_vars

\* The client's connection: the application and the reconnect timer call
\* connect(), sockets open, complete or fail the handshake, and close with
\* every code.
NextReconnect ==
    \/ AppConnect /\ UNCHANGED <<relayVars, ev, hist, restOfClient, pairVars, chainVars, storeVars, laterVars>>
    \/ TimerFires /\ UNCHANGED <<relayVars, ev, hist, restOfClient, pairVars, chainVars, storeVars, laterVars>>
    \/ clientOnOpen /\ UNCHANGED <<relayVars, ev, hist, restOfClient, pairVars, chainVars, storeVars, laterVars>>
    \/ HandshakeResolves /\ UNCHANGED <<relayVars, ev, hist, restOfClient, pairVars, chainVars, storeVars, laterVars>>
    \/ HandshakeRejects /\ UNCHANGED <<relayVars, ev, hist, restOfClient, pairVars, chainVars, storeVars, laterVars>>
    \/ clientOnError /\ UNCHANGED <<relayVars, ev, hist, restOfClient, pairVars, chainVars, storeVars, laterVars>>
    \/ \E code \in CloseCodes :
           clientSocketClose(code) /\ UNCHANGED <<relayVars, ev, hist, restOfClient, pairVars, chainVars, storeVars, laterVars>>

SpecReconnect == Init /\ [][NextReconnect]_vars

\* The client on its own, in either build: connecting, reconnecting and
\* disconnecting, messages to one recipient, acknowledgments and other
\* frames from the relay, acknowledgment timeouts, and the clock.
InitSession == InitBase /\ maxStoredMessages = MaxStoredMessages /\ bundled \in BOOLEAN

SessionRecipients == {"bob", "carol"}

NextSession ==
    \/ SessionConnect
    \/ SessionTimer
    \/ SessionOpen("n1", 1)
    \/ SessionResolves
    \/ SessionRejects
    \/ SessionError
    \/ \E code \in {1000, 1006} : SessionClose(code)
    \/ disconnect
    \/ Len(messageQueue) < MaxSessionMsgs /\ SessionSend("bob", <<1>>)
    \/ \E i \in 1..MaxMsgs : ackTimeout(i)
    \/ \E f \in SessionFrames : clientHandleMessage(f)
    \/ SessionTick

SpecSession == InitSession /\ [][NextSession]_vars

\* The client's timers fire when they are due; what the network and the
\* application do is up to them.
SpecSessionLive ==
    /\ SpecSession
    /\ WF_vars(\E i \in 1..MaxMsgs : ackTimeout(i))
    /\ WF_vars(SessionTimer)

\* The client's channels, in either build: messages to two recipients over
\* a channel that is set up, lost and set up again.
NextChannel ==
    \/ SessionConnect
    \/ SessionOpen("n1", 1)
    \/ SessionResolves
    \/ SessionClose(1006)
    \/ \E r \in SessionRecipients : SessionSend(r, <<1>>)
    \/ \E i \in 1..MaxMsgs : ackTimeout(i)
    \/ \E id \in 1..MaxMsgs : clientHandleMessage(AckFrame(id, TRUE))
    \/ SessionTick

SpecChannel == InitSession /\ [][NextChannel]_vars

\* ------------------------------------------------------------------ claims
\* The frame of the last step was handled by handleMessage on an open socket.
FrameStep == ev.op = "frame" /\ ev.open

\* The frame holds a header of four bytes or more that ends inside the frame:
\* the bytes handleEncryptedMessage reads the sequence from.
HasSequence(f) ==
    /\ f.len >= HEADER_OFFSET
    /\ HEADER_OFFSET + f.hdrLen <= f.len
    /\ f.hdrLen >= 4

SizeOk(f) == f.len <= MAX_MESSAGE_SIZE /\ f.len >= MIN_FRAME_SIZE

ExpectedNow(c) ==
    IF c \in DOMAIN clientSessions THEN clientSessions[c].expectedSequence ELSE -1

Acks(sent) == {i \in 1..Len(sent) : sent[i].kind = "ack"}

\* C1 as the spec states it: every frame received on an Active channel that
\* carries a sequence other than expected_sequence gets no ack, closes the
\* channel with 1007 and leaves expected_sequence alone.
C1_Original ==
    (FrameStep /\ ev.hcPre /\ HasSequence(ev.f) /\ ev.f.seq # ev.expPre)
        => /\ Acks(ev.sent) = {}
           /\ ev.close = 1007
           /\ ExpectedNow(ev.c) = ev.expPre

\* C1 amended: a frame received on an Active channel that is of valid size,
\* passes the message rate limit and carries a header of four bytes or more
\* inside the frame, with a sequence other than expected_sequence, gets no
\* ack, closes the channel with 1007 and leaves expected_sequence alone.
C1_SequenceMismatchCloses ==
    (FrameStep /\ ev.hcPre /\ SizeOk(ev.f) /\ HasSequence(ev.f)
       /\ ev.reason # "Rate limit exceeded" /\ ev.f.seq # ev.expPre)
        => /\ Acks(ev.sent) = {}
           /\ ev.close = 1007
           /\ ws[ev.c].state = "CLOSING" /\ ws[ev.c].code = 1007
           /\ ExpectedNow(ev.c) = ev.expPre

C1_Witness ==
    /\ FrameStep /\ ev.hcPre /\ ev.expPre = 1 /\ ev.f.seq # 1
    /\ ev.reason = "Sequence error"
    /\ ~Open(ev.c)

\* The states of a channel: no socket, Handshake (open, not authenticated),
\* Active (open, authenticated), Closed (the socket is closing).
Phase(c) ==
    IF c \notin DOMAIN ws THEN 0
    ELSE IF ws[c].state # "OPEN" THEN 3
    ELSE IF clientSessions[c].handshakeComplete THEN 2
    ELSE 1

\* C2: a frame received before the channel's handshake has completed is never
\* acknowledged and never advances expected_sequence, and a channel only
\* moves forward through Handshake, Active and Closed until its socket is gone.
C2_NoAckBeforeHandshake ==
    /\ [](FrameStep /\ ~ev.hcPre
            => Acks(ev.sent) = {} /\ ExpectedNow(ev.c) = ev.expPre
               /\ ExpectedNow(ev.c) = 0)
    /\ [][\A c \in Conns : Phase(c)' >= Phase(c) \/ Phase(c)' = 0]_vars

C2_Witness ==
    /\ FrameStep /\ ~ev.hcPre /\ ev.f = DataFrame(0)
    /\ ev.reason = "Invalid handshake format"
    /\ Phase(ev.c) = 3

\* C3 as the spec states it: an InitiatorInit whose nonce arrived before, less
\* than five minutes ago, on any connection, is closed with 1008, gets no
\* reply and does not grow the nonce tracker.
C3_Original ==
    (FrameStep /\ ev.f.len = HANDSHAKE_INIT_SIZE
       /\ ev.arrivedPre >= 0 /\ now - ev.arrivedPre < NONCE_TTL_MS)
        => /\ ev.close = 1008
           /\ ~ev.accept /\ ev.sent = <<>>
           /\ Len(used) <= ev.sizePre

\* C3 amended: an InitiatorInit received on a channel that has not completed
\* its handshake, while the nonce tracker holds its nonce with a first-seen
\* time less than five minutes old, is closed with 1008, gets no reply and
\* leaves the tracker's size as it was.
C3_TrackedNonceRejected ==
    (FrameStep /\ ~ev.hcPre /\ ev.f.len = HANDSHAKE_INIT_SIZE
       /\ ev.trackedPre >= 0 /\ now - ev.trackedPre < NONCE_TTL_MS)
        => /\ ev.close = 1008
           /\ ws[ev.c].state = "CLOSING" /\ ws[ev.c].code = 1008
           /\ ~ev.accept /\ ev.sent = <<>>
           /\ Len(used) = ev.sizePre

C3_Witness ==
    /\ FrameStep /\ ~ev.hcPre /\ ev.f.len = HANDSHAKE_INIT_SIZE
    /\ ev.trackedPre >= 0 /\ ev.trackedPre < now
    /\ ev.reason = "Replay detected"

\* The frame fails a check of the responder: its length, its signature, its
\* timestamp or its nonce.
FailsCheck(e) ==
    \/ e.f.len # HANDSHAKE_INIT_SIZE
    \/ ~e.f.sigOk
    \/ (IF now >= e.f.ts THEN now - e.f.ts ELSE e.f.ts - now) > MAX_CLOCK_SKEW_MS
    \/ (e.trackedPre >= 0 /\ now - e.trackedPre < NONCE_TTL_MS)

HandshakeFailReasons == {"Invalid handshake format", "Replay detected", "Handshake failed"}

\* C4: a frame that fails a responder check gets no handshake reply and
\* closes its channel, and the channel's handshake_done stays false from then
\* on: the channel is never Active.
C4_FailedInitNeverActive ==
    /\ (FrameStep /\ ~ev.hcPre /\ FailsCheck(ev))
           => ev.sent = <<>> /\ ~ev.accept /\ ev.close # 0 /\ ~Open(ev.c)
    /\ \A c \in DOMAIN clientSessions :
           ws[c].reason \in HandshakeFailReasons
               => ~clientSessions[c].handshakeComplete

\* C5: an InitiatorInit the relay has accepted once is never accepted again.
C5_AcceptedOnce ==
    (FrameStep /\ ev.acceptedPre) => ~ev.accept

\* C6: in any window of 60 s at most handshake_rate_per_min frames pass the
\* handshake rate check for one client id, the cleanup task included.
C6_HandshakeRateBound == Len(hsPasses) <= HandshakeRateLimitPerMin

\* C7: in any interval of 60 s the relay acknowledges at most
\* message_rate_max frames of one identity.
C7_MessageRateBound == Len(ackTimes) <= RateLimitMaxMessages

\* C8: the relay never holds more than max_sessions session records; a
\* connection arriving at capacity is closed with 1008 and gets no record;
\* the record of a channel is removed when the channel closes.
C8_SessionsBounded ==
    /\ Cardinality(DOMAIN clientSessions) <= MaxSessions
    /\ (ev.op = "connect" /\ ev.nSessPre >= MaxSessions)
           => /\ ev.close = 1008
              /\ ev.c \notin DOMAIN clientSessions
              /\ ws[ev.c].state = "CLOSING" /\ ws[ev.c].code = 1008
              /\ Cardinality(DOMAIN clientSessions) = ev.nSessPre
    /\ ev.op = "closed" => ev.c \notin DOMAIN clientSessions
    /\ DOMAIN clientSessions \subseteq DOMAIN ws

C8_Witness ==
    /\ ev.op = "connect" /\ ev.nSessPre = MaxSessions /\ ev.close = 1008
    /\ Cardinality(DOMAIN clientSessions) = MaxSessions

\* C9: after a successful handshake the relay extracts from the i-th message
\* frame of the client the sequence the client assigned to it, which is
\* i - 1, acknowledges the frame and leaves the channel open.
C9_RelayReadsSenderSequence ==
    (FrameStep /\ ev.hcPre /\ got.index >= 0 /\ got.index < RateLimitMaxMessages)
        => /\ got.sequence = Num(got.index)
           /\ ev.f.seq = got.index
           /\ Acks(ev.sent) # {}
           /\ ev.close = 0 /\ Open(ev.c)

\* C10: what decryptMessage on B returns for a message encryptMessage made
\* on A, the messages delivered in order, is the plaintext A encrypted.
C10_RoundTrip ==
    result.op = "decrypt" => result.ok /\ result.p = result.sent

\* The receive steps of the history, in order, and their message numbers.
Receives == SelectSeq(handed, LAMBDA h : h.op = "receive")

MessageNumbers == [i \in 1..Len(Receives) |-> Receives[i].m]

\* The history is a burst on one chain: after the set-up, receive steps
\* only, all with one public key, given the messages 0..N-1 once each in
\* some order.  The first step finds a receiving chain or the public key
\* of none, and then makes the chain.
Burst ==
    /\ handed # <<>>
    /\ handed[1].pre.sendingEphemeralKey # <<>>
    /\ \/ handed[1].pre.receivingEphemeralPublicKey = <<>>
       \/ handed[1].pre.receivingChainKey # <<>>
    /\ Receives = handed
    /\ \A i \in 1..Len(handed) : handed[i].dh = handed[1].dh
    /\ \A n \in 0..(Len(handed) - 1) : \E i \in 1..Len(handed) : handed[i].m = n

SkippedKeys == DOMAIN ratchet.skippedMessageKeys

\* C11: the messages 0..N-1 of one chain, given to the receive step in any
\* order, each yield their own key, no key twice, and leave the skipped-key
\* cache empty; after 0 and 4 the cache holds the three keys of 1, 2 and 3.
C11_BurstAnyOrder ==
    /\ Burst =>
           /\ \A i \in 1..Len(handed) :
                  handed[i].error = "" /\ handed[i].key.index = handed[i].m
           /\ \A i, j \in 1..Len(handed) :
                  i # j => handed[i].key.encryptionKey # handed[j].key.encryptionKey
           /\ SkippedKeys = {}
    /\ (Receives = handed /\ MessageNumbers = <<0, 4>>
          /\ handed[1].dh = handed[2].dh /\ handed[2].error = "")
           => Cardinality(SkippedKeys) = 3

\* C12: the key a receive step returns for message number m has index m.
C12_KeyIndexIsMessageNumber ==
    \A i \in 1..Len(handed) :
        (handed[i].op = "receive" /\ handed[i].error = "")
            => handed[i].key.index = handed[i].m

\* C13: the skipped-key cache never holds more than MAX_SKIPPED_MESSAGES keys.
C13_CacheBounded == Cardinality(SkippedKeys) <= MAX_SKIPPED_MESSAGES

\* The receive step i of the history was given a message number more than
\* MAX_SKIPPED_MESSAGES ahead of the index of the receiving chain.
TooFarAhead(h) ==
    /\ h.op = "receive"
    /\ h.pre.receivingChainKey # <<>>
    /\ h.m - h.pre.receivingChainKey[1].index > MAX_SKIPPED_MESSAGES

\* The step made the DH step: the state had no public key of the peer or
\* another one.
IsNewChain(h) ==
    \/ h.pre.receivingEphemeralPublicKey = <<>>
    \/ h.pre.receivingEphemeralPublicKey[1] # h.dh

NotOldChain(h) == IsNewChain(h) \/ h.m >= h.pre.previousChainLength

C16_CounterIsChainIndex ==
    last.op = "sent"
        => /\ ratchetA.sendCounter = Num(ratchetA.sendingChainKey[1].index)
           /\ last.sequence = Num(last.index)

\* C17: the nonce tracker never holds more than NonceMaxSize entries, and a
\* check on a full tracker does not grow it.
C17_TrackerBounded ==
    /\ Len(used) <= NonceMaxSize
    /\ (FrameStep /\ ev.sizePre >= NonceMaxSize) => Len(used) <= ev.sizePre

StoredSent(sent) == {i \in 1..Len(sent) : sent[i].kind = "stored"}

\* The last step completed the handshake of socket ev.c, which is Active
\* under the identity of the InitiatorInit.
BecameActive ==
    /\ ev.op = "resume" /\ ev.close = 0
    /\ ev.c \in DOMAIN clientSessions
    /\ clientSessions[ev.c].handshakeComplete
    /\ clientSessions[ev.c].clientId = ev.f.ident

\* C18: when a channel becomes Active under a client id the queue stored for
\* that id has been sent on it and removed, and no stored message is sent on
\* a channel that is not Active.
C18_DeliveredWhenActive ==
    /\ BecameActive => ev.f.ident \notin DOMAIN messageStore
    /\ StoredSent(ev.sent) # {} => BecameActive

\* C19: no recipient's list holds more messages than the cap, and the message
\* storeMessage was given is the last of its recipient's list.
C19_StoredBounded ==
    /\ \A id \in DOMAIN messageStore : Len(messageStore[id]) <= maxStoredMessages
    /\ ev.op = "store" =>
           /\ ev.f.ident \in DOMAIN messageStore
           /\ messageStore[ev.f.ident][Len(messageStore[ev.f.ident])].sequence = ev.f.seq

\* C20: after a close with a fatal code, whether in normal operation or
\* during the handshake of a reconnect attempt, no reconnect is scheduled and
\* the closed socket stays the client's socket until the application calls
\* connect() again.
C20_NoReconnectAfterFatal ==
    fatal # 0 => (~reconnectTimer /\ socket.phase = "closed")

\* The ratchet state step i of the history left behind.
PostState(i) == IF i < Len(handed) THEN handed[i + 1].pre ELSE ratchet

\* previousChainLength as the DH step detection of the step leaves it.
PreviousChainLengthOf(h) ==
    IF IsNewChain(h)
    THEN IF h.pre.receivingChainKey = <<>> THEN 0 ELSE h.pre.receivingChainKey[1].index
    ELSE h.pre.previousChainLength

\* A receive step that makes no DH step and is given a message number ahead
\* of the receiving chain index, no more than MAX_SKIPPED_MESSAGES ahead and
\* not below previousChainLength.
SkipsForward(h) ==
    /\ h.op = "receive"
    /\ ~IsNewChain(h)
    /\ h.pre.receivingChainKey # <<>>
    /\ h.m > h.pre.receivingChainKey[1].index
    /\ h.m - h.pre.receivingChainKey[1].index <= MAX_SKIPPED_MESSAGES
    /\ h.m >= h.pre.previousChainLength

\* C29: a receive step given a message number m ahead of the receiving chain
\* index i leaves in the skipped-key cache a key for each of i, ..., m-1,
\* stored under and carrying its own index, and leaves the chain index m+1.
C29_SkippedKeysCached ==
    \A n \in 1..Len(handed) :
        SkipsForward(handed[n]) =>
            /\ \A k \in (handed[n].pre.receivingChainKey[1].index)..(handed[n].m - 1) :
                   /\ k \in DOMAIN handed[n].cache
                   /\ handed[n].cache[k].index = k
            /\ PostState(n).receivingChainKey[1].index = handed[n].m + 1

\* The key of a chain before it has advanced: its key without the index-many
\* advances.
ChainStart(chainKey) == SubSeq(chainKey.key, 1, Len(chainKey.key) - chainKey.index)

\* The message key of index m of the chain that starts with key start.
KeyOfChainAt(start, m) ==
    MessageKeyOf(hkdf(start \o [k \in 1..m |-> NEXT_CHAIN_KEY_PART], MESSAGE_KEY_PART), m)

\* The last step up to step i that made a DH step.
LastDHStep(i) ==
    LET js == {j \in 1..i : /\ handed[j].op = "receive"
                            /\ IsNewChain(handed[j])
                            /\ handed[j].pre.sendingEphemeralKey # <<>>}
    IN  IF js = {} THEN 0 ELSE CHOOSE j \in js : \A k \in js : k <= j

\* Step i is a receive step for a message of the superseded chain: a DH step
\* has been made before it, the message carries the public key that DH step
\* replaced, and its number is below previousChainLength.
OldChainStep(i) ==
    /\ handed[i].op = "receive"
    /\ LastDHStep(i - 1) # 0
    /\ handed[LastDHStep(i - 1)].pre.receivingChainKey # <<>>
    /\ handed[LastDHStep(i - 1)].pre.receivingEphemeralPublicKey = <<handed[i].dh>>
    /\ handed[i].m < handed[i].pre.previousChainLength

\* The key of index m of the chain the last DH step superseded.
SupersededKey(i) ==
    KeyOfChainAt(ChainStart(handed[LastDHStep(i - 1)].pre.receivingChainKey[1]),
                 handed[i].m)

\* C30: after a DH step, a receive step for a message of the superseded
\* chain, with a number below previousChainLength, returns the key cached
\* for that index of the superseded chain and removes it from the cache;
\* when no such key is cached it fails with 'Message from old chain, key not
\* available' and returns no key.
C30_OldChainKey ==
    \A i \in 1..Len(handed) :
        OldChainStep(i) =>
            IF /\ handed[i].m \in DOMAIN handed[i].pre.skippedMessageKeys
               /\ handed[i].pre.skippedMessageKeys[handed[i].m] = SupersededKey(i)
            THEN /\ handed[i].error = ""
                 /\ handed[i].key = SupersededKey(i)
                 /\ handed[i].m \notin DOMAIN handed[i].cache
            ELSE /\ handed[i].error = "Message from old chain, key not available"
                 /\ handed[i].key = NoMessageKey

\* C26: the relay completes at most one handshake on a channel: a reply is
\* sent only on a channel whose handshake was not complete before.
C26_OneReplyPerChannel ==
    (ev.op = "resume" /\ \E i \in 1..Len(ev.sent) : ev.sent[i].kind = "reply")
        => ~ev.hcPre

\* C27: the frame carrying sequence n is written to the channel before the
\* frame carrying sequence n+1, however the sendMessage calls to one
\* recipient interleave.
C27_WrittenInSequenceOrder ==
    \A i, j \in 1..Len(written) :
        (written[i].t = "number" /\ written[j].t = "number"
             /\ written[j].n = written[i].n + 1)
            => i < j

\* C21: the outbound queue never holds a message whose retryCount has
\* reached MAX_RETRIES.
C21_RetriedMessagesDropped ==
    \A i \in 1..Len(messageQueue) : messageQueue[i].retryCount < MAX_RETRIES

\* C22: when the client is given an acknowledgment frame for a message that
\* awaits one, the waiter is resolved, and with the success flag set the
\* message has left the queue.
C22_AckResolvesWaiter ==
    (ev.op = "heard" /\ heard.kind = "ack" /\ heard.awaited)
        => /\ Awaited(messageQueue, heard.id) = {}
           /\ heard.success =>
                  \A i \in 1..Len(messageQueue) : messageQueue[i].messageId # heard.id

\* C23: after disconnect() no timer of the client is armed, the reconnect
\* timer, an acknowledgment timeout or the handshake deadline, and the
\* client has no socket of a new connection attempt.
C23_NoTimerAfterDisconnect ==
    disconnected
        => /\ ~reconnectTimer
           /\ \A i \in 1..Len(messageQueue) : ~messageQueue[i].waiting
           /\ socket.phase \in {"none", "aborting", "errored", "closing", "closed"}

\* C24: right after disconnect() the ratchet map is empty and the keys of
\* the handshake state, its ephemeral private key and its root key, are
\* overwritten.
C24_KeysOverwritten ==
    ev.op = "disconnect"
        => /\ ratchetStates = <<>>
           /\ handshakeState # <<>>
                  => /\ handshakeState[1].ephemeralKey.privateKey = ZeroKey
                     /\ handshakeState[1].rootKey \in {<<>>, <<ZeroKey>>}

\* C25: the message callback is called only with the plaintext of a frame
\* that was decrypted and authenticated.
C25_CallbackOnlyAuthentic ==
    \A i \in 1..Len(delivered) : delivered[i].authentic /\ delivered[i].decrypted

\* The frames on the channel that carry a message, in the order written.
Sequenced == SelectSeq(wire, LAMBDA w : w.index >= 0)

\* C28: the sequences the client puts on a channel are one counter from 0:
\* the k-th message frame on the channel carries k-1, whatever its recipient.
C28_OneCounterPerChannel ==
    \A k \in 1..Len(Sequenced) : Sequenced[k].sequence = Num(k - 1)

\* Step i makes a DH step that supersedes a receiving chain of length n >= 1.
SupersedingStep(i) ==
    /\ handed[i].op = "receive"
    /\ IsNewChain(handed[i])
    /\ handed[i].pre.sendingEphemeralKey # <<>>
    /\ handed[i].pre.receivingChainKey # <<>>
    /\ handed[i].pre.receivingChainKey[1].index >= 1

\* Steps i, ..., i+k are the receive steps for the messages 0, ..., k of the
\* chain the DH step of step i begins, in order.
InOrderRun(i, k) ==
    /\ i + k <= Len(handed)
    /\ SupersedingStep(i)
    /\ \A j \in 0..k : /\ handed[i + j].op = "receive"
                       /\ handed[i + j].dh = handed[i].dh
                       /\ handed[i + j].m = j

\* The key the receiving chain begun by step i starts with.
NewChainStart(i) == ChainStart(PostState(i).receivingChainKey[1])

\* C31: after a DH step that supersedes a receiving chain of length n >= 1
\* the messages 0, 1, 2, ... of the new chain, received in order, are each
\* accepted and get the key of their own index of the new receiving chain.
C31_NewChainInOrder ==
    \A i \in 1..Len(handed) : \A k \in 0..MaxSteps :
        InOrderRun(i, k) =>
            /\ handed[i + k].error = ""
            /\ handed[i + k].key = KeyOfChainAt(NewChainStart(i), k)

\* C38: the root key changes only in a receive step that detects a new
\* remote DH public key: a send step, and a receive step whose public key is
\* receivingEphemeralPublicKey, leave the root key as it was.
C38_RootKeyOnlyOnDHStep ==
    \A i \in 1..Len(handed) :
        PostState(i).rootKey # handed[i].pre.rootKey
            => handed[i].op = "receive" /\ IsNewChain(handed[i])

\* A send step and an accepted receive step under the known public key have
\* been made on a state whose root key a DH step had replaced.
C38_Witness ==
    /\ ratchet.rootKey # ChainRootKey
    /\ \E i, j \in 1..Len(handed) :
           /\ handed[i].op = "send" /\ handed[i].error = ""
           /\ handed[i].pre.rootKey # ChainRootKey
           /\ handed[j].op = "receive" /\ ~IsNewChain(handed[j])
           /\ handed[j].error = ""
           /\ handed[j].pre.rootKey # ChainRootKey

\* The index the sending chain has after send step i.
NewSendingIndex(i) ==
    IF handed[i].pre.sendingChainKey = <<>> THEN 1
    ELSE handed[i].pre.sendingChainKey[1].index + 1

\* C40: a send step that advances the sending chain index to
\* MAX_CHAIN_LENGTH fails with 'Chain length exceeded, must perform new
\* handshake', and so does every send step on that state after it.
C40_ChainExhausted ==
    \A i \in 1..Len(handed) :
        (handed[i].op = "send" /\ NewSendingIndex(i) >= MAX_CHAIN_LENGTH)
            => /\ handed[i].error = "Chain length exceeded, must perform new handshake"
               /\ \A j \in i..Len(handed) :
                      handed[j].op = "send" => handed[j].error = handed[i].error

\* The send step that reaches MAX_CHAIN_LENGTH and a send step after it have
\* been made.
C40_Witness ==
    \E i, j \in 1..Len(handed) :
        /\ i < j
        /\ handed[i].op = "send" /\ NewSendingIndex(i) = MAX_CHAIN_LENGTH
        /\ handed[j].op = "send" /\ handed[j].error # ""

\* The step ends a reconnect attempt in failure: the socket the timer's
\* connect() made fails before its handshake has resolved.
FailedAttempt ==
    /\ socket.origin = "timer" /\ ~socket.settled
    /\ socket.phase \in {"connecting", "handshake"}
    /\ socket'.phase \in {"errored", "failed", "closed"}

\* The step is a successful connect: the handshake resolves.
ConnectSucceeds == socket.phase = "handshake" /\ socket'.phase = "open"

\* C39: the reconnect backoff always lies between 1 s and 60 s; a failed
\* reconnect attempt doubles it up to 60 s, a successful connect resets it to
\* 1 s, and no other step changes it.
C39_BackoffLadder ==
    /\ [](retryBackoff >= INITIAL_BACKOFF_MS /\ retryBackoff <= MAX_BACKOFF_MS)
    /\ [][/\ FailedAttempt => retryBackoff' = Min(retryBackoff * 2, MAX_BACKOFF_MS)
          /\ ConnectSucceeds => retryBackoff' = INITIAL_BACKOFF_MS
          /\ retryBackoff' # retryBackoff => FailedAttempt \/ ConnectSucceeds]_vars

\* The backoff has reached its cap and another reconnect attempt is scheduled.
C39_Witness == retryBackoff = MAX_BACKOFF_MS /\ reconnectTimer

\* A reconnect attempt is under way or scheduled.
Attempting == reconnectTimer \/ socket.phase \in {"connecting", "handshake"}

\* The channel was lost with a code outside the fatal set and no connect has
\* succeeded since: the socket is closed with no fatal code on record, or is
\* one the reconnect timer made that is not connected.
Reconnecting ==
    /\ fatal = 0
    /\ \/ socket.phase = "closed"
       \/ socket.origin = "timer" /\ socket.phase # "open"

\* C33: after the channel closed with a code outside the fatal set the client
\* keeps attempting to reconnect until a connect succeeds: at every moment an
\* attempt is under way or the reconnect timer is armed.
C33_KeepsReconnecting == Reconnecting => Attempting

\* C34: the step in which the handshake fails, by its deadline or otherwise,
\* leaves the channel closed and a reconnect scheduled unless the close code
\* is fatal.
C34_TimeoutClosesChannel ==
    [][(socket.phase = "handshake" /\ socket'.phase \notin {"handshake", "open"})
          => /\ socket'.phase = "closed"
             /\ reconnectTimer' \/ fatal' # 0]_vars

\* C35: a channel's expectedSequence counts the acknowledgments sent on it:
\* a frame that is acknowledged carried the expected sequence and advanced
\* expectedSequence by one, whatever its header length.
C35_ExpectedCountsAcks ==
    (FrameStep /\ Acks(ev.sent) # {})
        => /\ HasSequence(ev.f)
           /\ ev.f.seq = ev.expPre
           /\ ExpectedNow(ev.c) = ev.expPre + 1

\* The root key a derived key comes from: the beginning of its derivation.
RootOf(key) == SubSeq(key, 1, Len(HandshakeRootKey))

\* C36: every message the client has encrypted is keyed from the root key of
\* a completed handshake, never from the zero root key of a ratchet state
\* createRatchetState has just made.
C36_KeyedFromHandshake ==
    \A i \in 1..Len(messageQueue) :
        RootOf(messageQueue[i].encryptedData.ciphertext.k) = HandshakeRootKey

\* The message ids of the frames written to the channel and not yet read.
OnChannel(w) == {w[k].frame.msgId : k \in {j \in 1..Len(w) : w[j].index >= 0}}

\* C37: a message that is queued when a connect succeeds, sent while the
\* client was disconnected or left unacknowledged by the channel that
\* dropped, is transmitted on the new channel, as long as its retryCount is
\* below MAX_RETRIES.
C37_QueuedSentOnConnect ==
    [][ConnectSucceeds =>
          \A i \in 1..Len(messageQueue) :
              messageQueue[i].retryCount < MAX_RETRIES
                  => messageQueue[i].messageId \in OnChannel(wire')]_vars

\* Message i of the queue is due for retransmission on a channel that is up:
\* its acknowledgment has timed out, its nextRetry has passed and its
\* retryCount is below MAX_RETRIES.
Due(i) ==
    /\ connected /\ socket.phase = "open"
    /\ i \in 1..Len(messageQueue)
    /\ ~messageQueue[i].waiting
    /\ messageQueue[i].retryCount >= 1
    /\ messageQueue[i].retryCount < MAX_RETRIES
    /\ messageQueue[i].nextRetry <= now

\* C32: while the client stays connected, a queued message whose
\* acknowledgment timed out is retransmitted once its nextRetry has passed
\* and its retryCount is below MAX_RETRIES: it does not stay due for ever.
C32_RetransmittedWhenDue == \A i \in 1..MaxMsgs : Due(i) ~> ~Due(i)
====
